---------------------------- MODULE Spec2Model ----------------------------
(***************************************************************************)
(* Work.ua job-application bot: the dedup ledger (database.py), the apply  *)
(* driver, the search and the session handling of the scraper              *)
(* (scraper.py), the run loop of the bot (bot.py), the LLM analysis        *)
(* (llm_service.py) and the validation of the configuration (config.py).   *)
(*                                                                         *)
(* Text is modelled as a sequence of one-character strings, so that the    *)
(* CSV round trip, the date formatting and the date parsing are computed   *)
(* the way the code computes them.  A calendar date is a record            *)
(* [year, month, day].                                                     *)
(***************************************************************************)
EXTENDS Integers, Sequences, FiniteSets, TLC

VARIABLES
    \* the ledger and the clock
    file,        \* applied_jobs.csv: the data rows as written, after the header
    now,         \* datetime.now(), as a calendar date
    ticks,       \* number of month changes of the clock so far
    last,        \* the most recent call on the store: its arguments, what it
                 \* returned and, for add_or_update, whether the URL was new,
                 \* existing, or the call repeated the one before it
    ever,        \* URLs passed to add_or_update since the store was created
    \* WorkUAScraper
    is_logged_in,  \* self.is_logged_in
    applied_jobs,  \* self.applied_jobs
    db,            \* the class of the object self.db
    session,       \* the most recent session call (start, check_login_status)
    apply,         \* the most recent apply_to_job call: the job, the page the
                   \* site has for it, how the call ended and what it clicked
    \* WorkUABot.run
    cfg,            \* max_applications and the configuration run reads
    pc,             \* where run is
    jobs,           \* the list run collected
    loc,            \* search_jobs calls made so far
    idx,            \* position of the loop in jobs
    total_scanned,
    total_applied,
    total_skipped,
    calls,          \* how often run called close, search_jobs, apply_to_job
    trail,          \* the first job whose apply_to_job failed, and how the
                    \* most recent job ended
    \* what the scraper meets outside itself, and the calls checked on their own
    world,          \* the browser, the cookies.json file and the site's login
    search,         \* the search_jobs call in progress
    llm,            \* an LLMAnalysisService and the most recent call on it
    conf,           \* a configuration and what Config.validate made of it
    agent           \* the AgentState of a WorkUAAgent graph and the node it is at

storeVars == <<file, now, ticks, last, ever>>

scraperVars == <<is_logged_in, applied_jobs, db, session, apply>>

runVars == <<cfg, pc, jobs, loc, idx, total_scanned, total_applied,
             total_skipped, calls, trail>>

extVars == <<world, search, llm, conf, agent>>

vars == <<storeVars, scraperVars, runVars, extVars>>

-----------------------------------------------------------------------------
(* Bounds of the model *)

\* the clock moves into at most this many later calendar months
MaxTicks == 2

\* a search_jobs call returns at most this many listings
MaxFound == 2

\* run is called with max_applications up to this
MaxApplications == 2

\* search_jobs is called with max_pages up to this
MaxPages == 3

\* search_jobs is called with target_jobs up to this
MaxTarget == 3

-----------------------------------------------------------------------------
(* Text *)

CR == "\r"
LF == "\n"

DIGITS == <<"0", "1", "2", "3", "4", "5", "6", "7", "8", "9">>

IsDigit(c) == \E i \in 1..10 : DIGITS[i] = c

DigitVal(c) == (CHOOSE i \in 1..10 : DIGITS[i] = c) - 1

\* int(text) of a sequence of decimal digits
RECURSIVE ParseInt(_)
ParseInt(s) ==
    IF s = <<>> THEN 0
    ELSE 10 * ParseInt(SubSeq(s, 1, Len(s) - 1)) + DigitVal(s[Len(s)])

\* the decimal digits of a natural number, without padding
RECURSIVE Decimal(_)
Decimal(n) ==
    IF n < 10 THEN <<DIGITS[n + 1]>>
    ELSE Decimal(n \div 10) \o <<DIGITS[(n % 10) + 1]>>

\* the decimal digits of n, zero-padded on the left to two places (%m, %d)
Pad2(n) == IF n < 10 THEN <<"0">> \o Decimal(n) ELSE Decimal(n)

\* What a text-mode read without newline="" does to the characters of the
\* file: "\r\n" and a lone "\r" both arrive as "\n".
RECURSIVE UniversalNewlines(_)
UniversalNewlines(s) ==
    IF s = <<>> THEN <<>>
    ELSE IF s[1] = CR
         THEN IF Len(s) >= 2 /\ s[2] = LF
              THEN <<LF>> \o UniversalNewlines(SubSeq(s, 3, Len(s)))
              ELSE <<LF>> \o UniversalNewlines(Tail(s))
         ELSE <<s[1]>> \o UniversalNewlines(Tail(s))

-----------------------------------------------------------------------------
(* Calendar dates *)

None == [tag |-> "None"]

Date(y, m, d) == [year |-> y, month |-> m, day |-> d]

IsLeap(y) == (y % 4 = 0 /\ y % 100 # 0) \/ y % 400 = 0

DaysInMonth(y, m) ==
    IF m = 2 THEN (IF IsLeap(y) THEN 29 ELSE 28)
    ELSE IF m \in {4, 6, 9, 11} THEN 30 ELSE 31

\* datetime(year, month, day) accepts exactly these; anything else is a
\* ValueError
ValidDate(y, m, d) ==
    /\ y >= 1 /\ y <= 9999
    /\ m >= 1 /\ m <= 12
    /\ d >= 1 /\ d <= DaysInMonth(y, m)

\* strftime('%Y-%m-%d'): %m and %d are zero-padded to two digits; %Y is the
\* year as the C library prints it, which is unpadded below 1000
strftime_Ymd(dt) ==
    Decimal(dt.year) \o <<"-">> \o Pad2(dt.month) \o <<"-">> \o Pad2(dt.day)

\* the %m directive of strptime: 1[0-2] | 0[1-9] | [1-9]
MatchesMonth(s) ==
    \/ Len(s) = 2 /\ s[1] = "1" /\ s[2] \in {"0", "1", "2"}
    \/ Len(s) = 2 /\ s[1] = "0" /\ IsDigit(s[2]) /\ s[2] # "0"
    \/ Len(s) = 1 /\ IsDigit(s[1]) /\ s[1] # "0"

\* the %d directive of strptime: 3[01] | [12]\d | 0[1-9] | [1-9] | " "[1-9]
MatchesDay(s) ==
    \/ Len(s) = 2 /\ s[1] = "3" /\ s[2] \in {"0", "1"}
    \/ Len(s) = 2 /\ s[1] \in {"1", "2"} /\ IsDigit(s[2])
    \/ Len(s) = 2 /\ s[1] \in {"0", " "} /\ IsDigit(s[2]) /\ s[2] # "0"
    \/ Len(s) = 1 /\ IsDigit(s[1]) /\ s[1] # "0"

\* digits of a %d match, the leading blank dropped
DayDigits(s) == IF s[1] = " " THEN Tail(s) ELSE s

\* datetime.strptime(s, "%Y-%m-%d"): the date, or None where it raises
\* ValueError (no match, text left over, or no such calendar day)
strptime_Ymd(s) ==
    IF /\ Len(s) >= 8
       /\ \A i \in 1..4 : IsDigit(s[i])
       /\ s[5] = "-"
       /\ \E k \in 7..(Len(s) - 1) :
            /\ s[k] = "-"
            /\ \A j \in 6..(k - 1) : s[j] # "-"
            /\ MatchesMonth(SubSeq(s, 6, k - 1))
            /\ MatchesDay(SubSeq(s, k + 1, Len(s)))
    THEN LET k == CHOOSE k \in 7..(Len(s) - 1) :
                      s[k] = "-" /\ \A j \in 6..(k - 1) : s[j] # "-"
             y == ParseInt(SubSeq(s, 1, 4))
             m == ParseInt(SubSeq(s, 6, k - 1))
             d == ParseInt(DayDigits(SubSeq(s, k + 1, Len(s))))
         IN  IF ValidDate(y, m, d) THEN Date(y, m, d) ELSE None
    ELSE None

calculate_months_betweenAbs(from_date, to_date) ==
    LET months == (to_date.year - from_date.year) * 12 + (to_date.month - from_date.month)
    IN  IF months < 0 THEN 0 - months ELSE months

\* VacancyDatabase.calculate_months_between
calculate_months_between(from_date, to_date) ==
    (to_date.year - from_date.year) * 12 + (to_date.month - from_date.month)


-----------------------------------------------------------------------------
(* The CSV ledger: CSVVacancyDatabase *)

\* one data row under the fieldnames url, date_applied, title, company
Row(url, date_applied, title, company) ==
    [url |-> url, date_applied |-> date_applied, title |-> title, company |-> company]

\* csv.DictWriter(open(path, "w", newline="")).writerows(rows): every field
\* reaches the file character for character (quoted where it must be)
WriteRows(rows) == rows

\* csv.DictReader(open(path, "r")): the file is opened without newline="",
\* so the reader is fed the characters after newline translation
ReadRows(f) ==
    [i \in 1..Len(f) |->
        Row(UniversalNewlines(f[i].url), UniversalNewlines(f[i].date_applied),
            UniversalNewlines(f[i].title), UniversalNewlines(f[i].company))]

\* CSVVacancyDatabase.get_application: the first row whose url is the one
\* asked for, None when there is none
get_application(f, url) ==
    LET rows == ReadRows(f)
        hits == {i \in 1..Len(rows) : rows[i].url = url}
    IN  IF hits = {} THEN None
        ELSE rows[CHOOSE i \in hits : \A j \in hits : i <= j]

add_or_updateAlwaysAppend(f, url, date_applied, title, company) ==
    WriteRows(Append(ReadRows(f), Row(url, date_applied, title, company)))

\* CSVVacancyDatabase.add_or_update from the rows the reader gave before the
\* reading ended (at the end of the file, or in the exception that is caught):
\* every row read whose url matches gets the new date, and the new title and
\* company where they are non-empty; a row is appended when none matched; the
\* rows are written back.
add_or_update_rows(read, url, date_applied, title, company) ==
    LET rows == [i \in 1..Len(read) |->
                    IF read[i].url = url
                    THEN Row(read[i].url, date_applied,
                             IF title # <<>> THEN title ELSE read[i].title,
                             IF company # <<>> THEN company ELSE read[i].company)
                    ELSE read[i]]
        existing == \E i \in 1..Len(read) : read[i].url = url
    IN  WriteRows(IF existing THEN rows
                  ELSE Append(rows, Row(url, date_applied, title, company)))

\* CSVVacancyDatabase.add_or_update on a file that is read to its end: the
\* file after the call
add_or_update(f, url, date_applied, title, company) ==
    add_or_update_rows(ReadRows(f), url, date_applied, title, company)

\* CSVVacancyDatabase.add_or_update on a file whose reading raises after
\* "given" rows (none when the file does not open): the file after the call
add_or_update_read_fails(f, given, url, date_applied, title, company) ==
    add_or_update_rows(SubSeq(ReadRows(f), 1, given), url, date_applied, title, company)

should_reapplyRefuseUnknown(f, url, months_threshold, today) ==
    LET record == get_application(f, url)
    IN  IF record = None THEN FALSE
        ELSE LET date_applied == strptime_Ymd(record.date_applied)
             IN  IF date_applied = None THEN TRUE
                 ELSE calculate_months_between(date_applied, today) >= months_threshold

should_reapplyStrict(f, url, months_threshold, today) ==
    LET record == get_application(f, url)
    IN  IF record = None THEN TRUE
        ELSE LET date_applied == strptime_Ymd(record.date_applied)
             IN  IF date_applied = None THEN TRUE
                 ELSE calculate_months_between(date_applied, today) > months_threshold

\* CSVVacancyDatabase.should_reapply, with datetime.now() = today
should_reapply(f, url, months_threshold, today) ==
    LET record == get_application(f, url)
    IN  IF record = None THEN TRUE
        ELSE LET date_applied == strptime_Ymd(record.date_applied)
             IN  IF date_applied = None THEN TRUE
                 ELSE calculate_months_between(date_applied, today) >= months_threshold

\* CSVVacancyDatabase.get_months_since_application, with datetime.now() = today
get_months_since_application(f, url, today) ==
    LET record == get_application(f, url)
    IN  IF record = None THEN None
        ELSE LET date_applied == strptime_Ymd(record.date_applied)
             IN  IF date_applied = None THEN None
                 ELSE calculate_months_between(date_applied, today)

-----------------------------------------------------------------------------
(* WorkUAScraper (scraper.py) *)

\* config.REAPPLY_AFTER_MONTHS and config.MIN_MATCH_PROBABILITY, at their
\* defaults
REAPPLY_AFTER_MONTHS == 2
MIN_MATCH_PROBABILITY == 90

\* the methods an object of each class of database.py answers to
Methods(cls) ==
    IF cls = "VacancyDatabase"
    THEN {"create", "calculate_months_between"}
    ELSE IF cls = "SupabaseVacancyDatabase"
    THEN {"create", "calculate_months_between", "get_application",
          "add_or_update", "should_reapply", "get_months_since_application"}
    ELSE {"create", "calculate_months_between", "_ensure_db_exists",
          "get_application", "add_or_update", "should_reapply",
          "get_months_since_application"}

\* WorkUAScraper.__init__: self.db = VacancyDatabase(), the base class
StoreClass == "VacancyDatabase"

NoSession ==
    [op |-> "none", raised |-> FALSE, auto_login |-> "not_called",
     report |-> "none"]

NoApply ==
    [op |-> "none", job |-> None, page |-> None, load |-> "none",
     notice |-> None, today |-> None, outcome |-> "none", clicks |-> <<>>]

\* WorkUAScraper.__init__
ScraperNew ==
    /\ is_logged_in = FALSE
    /\ applied_jobs = {}
    /\ db = StoreClass
    /\ session = NoSession
    /\ apply = NoApply

\* The session functions return the new self.is_logged_in, the value
\* returned and whether the call raised.
Outcome(logged, result, raised) ==
    [is_logged_in |-> logged, result |-> result, raised |-> raised]

\* WorkUAScraper.load_cookies on a cookies.json that is absent, loads, or
\* fails to load
load_cookies(logged, cookies) ==
    CASE cookies = "absent"  -> Outcome(logged, FALSE, FALSE)
      [] cookies = "loads"   -> Outcome(TRUE, TRUE, FALSE)
      [] cookies = "corrupt" -> Outcome(logged, FALSE, TRUE)

\* WorkUAScraper.check_login_status, by what the home page shows: the link
\* to the user's section, no such link, a locator error, or no page at all
check_login_status(logged, home) ==
    CASE home = "goto_raises"    -> Outcome(logged, FALSE, TRUE)
      [] home = "my_section"     -> Outcome(TRUE, TRUE, FALSE)
      [] home = "no_my_section"  -> Outcome(FALSE, FALSE, FALSE)
      [] home = "locator_raises" -> Outcome(FALSE, FALSE, FALSE)

\* WorkUAScraper.auto_login, by how the login goes.  Every exception is
\* caught; the wait for the redirect ends in "timeout" after 60 seconds.
auto_login(logged, login) ==
    CASE login = "no_phone"               -> Outcome(logged, FALSE, FALSE)
      [] login = "goto_raises"            -> Outcome(logged, FALSE, FALSE)
      [] login = "already"                -> Outcome(TRUE, TRUE, FALSE)
      [] login = "already_save_raises"    -> Outcome(TRUE, FALSE, FALSE)
      [] login = "no_phone_input"         -> Outcome(logged, FALSE, FALSE)
      [] login = "form_raises"            -> Outcome(logged, FALSE, FALSE)
      [] login = "redirected"             -> Outcome(TRUE, TRUE, FALSE)
      [] login = "redirected_save_raises" -> Outcome(logged, FALSE, FALSE)
      [] login = "timeout"                -> Outcome(logged, FALSE, FALSE)

\* WorkUAScraper.start with the restored cookies trusted without a check
startTrustCookies(logged, env) ==
    LET Started(o, login) ==
            [is_logged_in |-> o.is_logged_in, raised |-> o.raised,
             auto_login |-> login]
        cookies == load_cookies(logged, env.cookies)
    IN  IF ~env.launch THEN Started(Outcome(logged, FALSE, TRUE), "not_called")
        ELSE IF cookies.raised \/ cookies.result
             THEN Started(cookies, "not_called")
             ELSE Started(auto_login(cookies.is_logged_in, env.login),
                          env.login)

\* WorkUAScraper.start: the browser is launched, the cookies are loaded and
\* checked, and auto_login is called when there are none or they are stale
start(logged, env) ==
    LET Started(o, login) ==
            [is_logged_in |-> o.is_logged_in, raised |-> o.raised,
             auto_login |-> login]
        cookies == load_cookies(logged, env.cookies)
        checked == check_login_status(cookies.is_logged_in, env.home)
    IN  IF ~env.launch THEN Started(Outcome(logged, FALSE, TRUE), "not_called")
        ELSE IF cookies.raised THEN Started(cookies, "not_called")
        ELSE IF cookies.result
             THEN IF checked.raised \/ checked.result
                  THEN Started(checked, "not_called")
                  ELSE Started(auto_login(checked.is_logged_in, env.login),
                               env.login)
             ELSE Started(auto_login(cookies.is_logged_in, env.login),
                          env.login)

\* WorkUAScraper.analyze_job_match_with_llm: config has no RESUME_PATH, the
\* AttributeError is caught and the probability returned is 50
analyze_job_match_with_llm == 50

\* What apply_to_job leaves behind: how it ended ("True", "False" or the
\* exception that left it), the ledger, self.applied_jobs and the buttons it
\* clicked
Applied_(outcome, f, applied, clicks) ==
    [outcome |-> outcome, file |-> f, applied_jobs |-> applied,
     clicks |-> clicks]

\* the notice on a job page: none, one without a DD.MM.YYYY date, or one
\* with the date of the earlier application
Notice(kind, date) == [kind |-> kind, date |-> date]

\* apply_to_job from the page load on (the try block): the already-applied
\* notice, the LLM check, the apply button, the send button, the signs of
\* success
apply_on_page(cls, f, applied, today, job, page) ==
    LET Has(m) == m \in Methods(cls)
        dated == page.notice.kind = "dated"
        \* an AttributeError in the notice block is caught there
        wrote == dated /\ Has("calculate_months_between") /\ Has("add_or_update")
        f1 == IF wrote
              THEN add_or_update(f, job.url, strftime_Ymd(page.notice.date),
                                 job.title, job.company)
              ELSE f
        seen == applied \cup {job.url}
        \* the attempts on the apply button: a click and, when that raised,
        \* a force click
        first == IF page.click = "ok" THEN <<"click">>
                 ELSE <<"click", "force_click">>
        sent == first \o <<"send">>
                  \o (IF page.confirm THEN <<"confirm">> ELSE <<>>)
                  \o (IF page.not_add THEN <<"not_add">> ELSE <<>>)
    IN  IF page.load = "raises" THEN Applied_("False", f, applied, <<>>)
        ELSE IF wrote /\ calculate_months_between(page.notice.date, today)
                            < REAPPLY_AFTER_MONTHS
        THEN Applied_("False", f1, seen, <<>>)
        ELSE IF /\ page.llm_check
                /\ page.main
                /\ analyze_job_match_with_llm < MIN_MATCH_PROBABILITY
        THEN Applied_("False", f1, seen, <<>>)
        ELSE IF page.button = "none" THEN Applied_("False", f1, applied, <<>>)
        ELSE IF page.click = "fails" THEN Applied_("False", f1, applied, first)
        ELSE IF ~page.send THEN Applied_("False", f1, applied, first)
        ELSE IF page.sign = "none" THEN Applied_("False", f1, applied, sent)
        ELSE IF ~Has("add_or_update") THEN Applied_("False", f1, seen, sent)
        ELSE Applied_("True",
                      add_or_update(f1, job.url, strftime_Ymd(today),
                                    job.title, job.company),
                      seen, sent)

\* WorkUAScraper.apply_to_job
apply_to_job(logged, cls, f, applied, today, job, page) ==
    LET Has(m) == m \in Methods(cls)
    IN  IF ~logged THEN Applied_("False", f, applied, <<>>)
        ELSE IF ~Has("should_reapply")
        THEN Applied_("AttributeError", f, applied, <<>>)
        ELSE IF ~should_reapply(f, job.url, REAPPLY_AFTER_MONTHS, today)
        THEN IF ~Has("get_months_since_application")
             THEN Applied_("AttributeError", f, applied, <<>>)
             ELSE Applied_("False", f, applied \cup {job.url}, <<>>)
        ELSE apply_on_page(cls, f, applied, today, job, page)

\* target_jobs of search_jobs: None, or a number
NoTarget == [given |-> FALSE, n |-> 0]
Target(n) == [given |-> TRUE, n |-> n]

\* search_jobs with the scan going on however many listings there are
scan_endsNever(target_jobs, count) == FALSE

\* search_jobs, the check after a page: "if target_jobs and
\* len(jobs) >= target_jobs: break"
scan_ends(target_jobs, count) ==
    /\ target_jobs.given
    /\ target_jobs.n # 0
    /\ count >= target_jobs.n

-----------------------------------------------------------------------------
(* WorkUABot (bot.py) *)

\* config.MIN_SCORE, at its default
MIN_SCORE == 7

\* WorkUABot.analyze_job: without the LLM every job is to be applied to;
\* with it the score decides, and a failed analysis declines the job
analyze_job(use_llm, raises, score) ==
    IF ~use_llm THEN TRUE
    ELSE IF raises THEN FALSE
    ELSE score >= MIN_SCORE

\* login_gate without the return
login_gateNoReturn(logged) ==
    [pc |-> "search", close |-> IF logged THEN 0 ELSE 1]

\* run, after start: the scraper is closed and run returns when the user is
\* not logged in, otherwise the search begins
login_gate(logged) ==
    IF logged THEN [pc |-> "search", close |-> 0]
    ELSE [pc |-> "done", close |-> 1]

\* after_apply without the try around apply_to_job: an exception ends the
\* loop
after_applyAbort(outcome) ==
    IF outcome = "raised" THEN [applied |-> 0, skipped |-> 0, pc |-> "finally"]
    ELSE IF outcome = "True" THEN [applied |-> 1, skipped |-> 0, pc |-> "loop"]
    ELSE [applied |-> 0, skipped |-> 1, pc |-> "loop"]

\* run, the loop body after apply_to_job ended with this outcome: what is
\* added to total_applied and total_skipped, and where run goes on
after_apply(outcome) ==
    IF outcome = "True" THEN [applied |-> 1, skipped |-> 0, pc |-> "loop"]
    ELSE [applied |-> 0, skipped |-> 1, pc |-> "loop"]

\* the first break with the target passed only by a higher count
target_reachedAbove(total, max_applications) == total > max_applications

\* run, the first break of the loop: "if total_applied >= max_applications"
target_reached(total, max_applications) == total >= max_applications

\* the number of search_jobs calls run makes
Searches(c) == IF c.REMOTE_ONLY THEN 1 ELSE Len(c.LOCATIONS)

NoTrail == [failed |-> 0, kind |-> "none", outcome |-> "none"]

\* WorkUABot.run has not been called
RunNew ==
    /\ cfg = None
    /\ pc = "idle"
    /\ jobs = <<>>
    /\ loc = 0
    /\ idx = 1
    /\ total_scanned = 0
    /\ total_applied = 0
    /\ total_skipped = 0
    /\ calls = [close |-> 0, search_jobs |-> 0, apply_to_job |-> 0]
    /\ trail = NoTrail

\* nothing outside the store, the scraper and the run is looked at
ExtNew ==
    /\ world = None
    /\ search = None
    /\ llm = None
    /\ conf = None
    /\ agent = None

-----------------------------------------------------------------------------
(* LLMAnalysisService (llm_service.py).  A reply of the chat API is a
   sequence of lexemes; a text that is searched or concatenated is a
   sequence of pieces; a text that is only passed on is a string. *)

\* Python values
Number(n) == [tag |-> "int", v |-> n]
Str(s) == [tag |-> "str", v |-> s]
List == [tag |-> "list"]
Dict(d) == [tag |-> "dict", v |-> d]
JSONDecodeError == [tag |-> "JSONDecodeError"]

\* dict.get(key, default)
get(d, key, default) == IF key \in DOMAIN d THEN d[key] ELSE default

\* the lexemes of a JSON text: the punctuation, the digits of a number, a
\* string between its quotes, a bare word
Punct(c) == [kind |-> "punct", v |-> c]
Digit(c) == [kind |-> "digit", v |-> c]
Quoted(s) == [kind |-> "string", v |-> s]
Word(w) == [kind |-> "word", v |-> w]

\* json.loads of one scalar: a string, null, or an integer without a
\* leading zero
Scalar(t) ==
    IF t = <<>> THEN JSONDecodeError
    ELSE IF Len(t) = 1 /\ t[1].kind = "string" THEN Str(<<t[1].v>>)
    ELSE IF t = <<Word("null")>> THEN None
    ELSE IF /\ \A i \in 1..Len(t) : t[i].kind = "digit"
            /\ (Len(t) > 1 => t[1].v # "0")
         THEN Number(ParseInt([i \in 1..Len(t) |-> t[i].v]))
    ELSE JSONDecodeError

\* json.loads, after the opening brace: the members "key": scalar up to the
\* closing brace, a later member replacing an earlier one of the same key
RECURSIVE Members(_, _)
Members(t, d) ==
    IF Len(t) < 4 \/ t[1].kind # "string" \/ t[2] # Punct(":")
    THEN JSONDecodeError
    ELSE LET ends == { i \in 3..Len(t) : t[i] \in {Punct(","), Punct("}")} }
         IN  IF ends = {} THEN JSONDecodeError
             ELSE LET end == CHOOSE i \in ends : \A j \in ends : i <= j
                      val == Scalar(SubSeq(t, 3, end - 1))
                      d2 == [k \in DOMAIN d \cup {t[1].v} |->
                                IF k = t[1].v THEN val ELSE d[k]]
                  IN  IF val = JSONDecodeError THEN JSONDecodeError
                      ELSE IF t[end] = Punct("}")
                           THEN IF end = Len(t) THEN Dict(d2)
                                ELSE JSONDecodeError
                           ELSE Members(SubSeq(t, end + 1, Len(t)), d2)

\* json.loads: an object of scalars, an empty array, or a scalar
json_loads(t) ==
    IF t = <<Punct("{"), Punct("}")>> THEN Dict([k \in {} |-> None])
    ELSE IF t # <<>> /\ t[1] = Punct("{") THEN Members(Tail(t), [k \in {} |-> None])
    ELSE IF t = <<Punct("["), Punct("]")>> THEN List
    ELSE Scalar(t)

\* a call of chat.completions.create: it raises, or it returns a message
\* whose content is None or a text
CallRaises == [raises |-> TRUE, content |-> None]
Reply(content) == [raises |-> FALSE, content |-> content]

\* LLMAnalysisService.__init__: the client is created when the key is set
\* and one of the two LLM features is on
LLMAnalysisService(c) ==
    LET llm_enabled == c.USE_LLM \/ c.USE_PRE_APPLY_LLM_CHECK
        created == c.OPENAI_API_KEY /\ llm_enabled /\ ~c.client_raises
    IN  [client |-> IF created THEN Str("AsyncOpenAI") ELSE None,
         use_llm |-> created,
         filter_text |-> <<>>]

\* the text that load_filter falls back to
fallback_filter == <<"fallback_filter">>

\* the text that load_resume falls back to
fallback_resume == <<"fallback_resume">>

\* open(path, "r", encoding="utf-8") and read(): a file that is absent or
\* cannot be read raises, the text of one that can arrives with universal
\* newlines
read_text(f) ==
    IF f.tag = "str" THEN [raised |-> FALSE, text |-> UniversalNewlines(f.v)]
    ELSE [raised |-> TRUE, text |-> <<>>]

\* load_filter with self.filter_text left alone when the file cannot be read
load_filterKeepText(self, f) ==
    IF f.tag = "str"
    THEN [self |-> [self EXCEPT !.filter_text = UniversalNewlines(f.v)],
          result |-> UniversalNewlines(f.v), raised |-> FALSE]
    ELSE [self |-> self, result |-> fallback_filter, raised |-> FALSE]

\* LLMAnalysisService.load_filter on the file f at filter_path
load_filter(self, f) ==
    LET r == read_text(f)
        filter_text == IF r.raised THEN fallback_filter ELSE r.text
    IN  [self |-> [self EXCEPT !.filter_text = filter_text],
         result |-> filter_text, raised |-> FALSE]

\* WorkUABot._load_resume on the file f at the resume path
load_resume(f) ==
    LET r == read_text(f)
    IN  [result |-> IF r.raised THEN fallback_resume ELSE r.text,
         raised |-> FALSE]

\* s[:n]
Prefix(s, n) == SubSeq(s, 1, IF Len(s) < n THEN Len(s) ELSE n)

\* build_analysis_prompt with the user's filter put into the prompt
build_analysis_promptWithFilter(self, job_title, company, location, salary, description) ==
    <<"You are an HR assistant. FILTER: ">> \o self.filter_text
    \o <<"\nTitle: ">> \o job_title
    \o <<"\nCompany: ">> \o company
    \o <<"\nLocation: ">> \o location
    \o <<"\nSalary: ">>
    \o (IF salary.tag = "str" /\ salary.v # <<>> THEN salary.v
        ELSE <<"Not specified">>)
    \o <<"\nDescription: ">>
    \o (IF description # <<>> THEN Prefix(description, 1000)
        ELSE <<"No description">>)
    \o <<"\n\nTASK: ... RESPONSE FORMAT (JSON): ...">>

\* LLMAnalysisService._build_analysis_prompt
build_analysis_prompt(self, job_title, company, location, salary, description) ==
    <<"You are an HR assistant. Analyze this job posting.\n\nJOB POSTING:\nTitle: ">>
    \o job_title
    \o <<"\nCompany: ">> \o company
    \o <<"\nLocation: ">> \o location
    \o <<"\nSalary: ">>
    \o (IF salary.tag = "str" /\ salary.v # <<>> THEN salary.v
        ELSE <<"Not specified">>)
    \o <<"\nDescription: ">>
    \o (IF description # <<>> THEN Prefix(description, 1000)
        ELSE <<"No description">>)
    \o <<"\n\nTASK: ... RESPONSE FORMAT (JSON): ...">>

\* what analyze_job returns
Analysis(should_apply, score, reason) ==
    [should_apply |-> should_apply, score |-> score, reason |-> reason,
     raised |-> FALSE]

\* analyze_job with the exception let through
AnalysisErrorRaised(e) ==
    [should_apply |-> FALSE, score |-> Number(0), reason |-> Str(<<e>>),
     raised |-> TRUE]

\* analyze_job, the except branch: f"Analysis error: {e}"
AnalysisError(e) == Analysis(FALSE, Number(0), Str(<<"Analysis error: ", e>>))

\* analyze_job with the threshold passed only by a higher score
LLMAnalysisService_analyze_jobAbove(self, job, reply) ==
    IF ~self.use_llm
    THEN Analysis(TRUE, Number(10), Str(<<"Brute force mode - applying to all">>))
    ELSE IF reply.raises THEN AnalysisError("APIError")
    ELSE IF reply.content = None THEN AnalysisError("TypeError")
    ELSE LET result == json_loads(reply.content.v)
         IN  IF result = JSONDecodeError THEN AnalysisError("JSONDecodeError")
             ELSE IF result.tag # "dict" THEN AnalysisError("AttributeError")
             ELSE LET score == get(result.v, "score", Number(0))
                      reason == get(result.v, "reason", Str(<<>>))
                  IN  IF score.tag # "int" THEN AnalysisError("TypeError")
                      ELSE Analysis(score.v > MIN_SCORE, score, reason)

\* LLMAnalysisService.analyze_job: brute force without the LLM; with it the
\* prompt is built, the reply is parsed as JSON, and the score is compared
\* with MIN_SCORE; every exception on the way is caught
LLMAnalysisService_analyze_job(self, job, reply) ==
    IF ~self.use_llm
    THEN Analysis(TRUE, Number(10), Str(<<"Brute force mode - applying to all">>))
    ELSE IF reply.raises THEN AnalysisError("APIError")
    ELSE IF reply.content = None THEN AnalysisError("TypeError")
    ELSE LET result == json_loads(reply.content.v)
         IN  IF result = JSONDecodeError THEN AnalysisError("JSONDecodeError")
             ELSE IF result.tag # "dict" THEN AnalysisError("AttributeError")
             ELSE LET score == get(result.v, "score", Number(0))
                      reason == get(result.v, "reason", Str(<<>>))
                  IN  IF score.tag # "int" THEN AnalysisError("TypeError")
                      ELSE Analysis(score.v >= MIN_SCORE, score, reason)

\* WorkUABot.analyze_job (bot.py), which reads the reply the same way; its
\* two fixed texts, which are Ukrainian, are written as their translations
WorkUABot_analyze_job(use_llm, job, reply) ==
    IF ~use_llm
    THEN Analysis(TRUE, Number(10), Str(<<"Brute force mode - applying to all">>))
    ELSE IF reply.raises THEN AnalysisError("APIError")
    ELSE IF reply.content = None THEN AnalysisError("TypeError")
    ELSE LET result == json_loads(reply.content.v)
         IN  IF result = JSONDecodeError THEN AnalysisError("JSONDecodeError")
             ELSE IF result.tag # "dict" THEN AnalysisError("AttributeError")
             ELSE LET score == get(result.v, "score", Number(0))
                      reason == get(result.v, "reason", Str(<<>>))
                  IN  IF score.tag # "int" THEN AnalysisError("TypeError")
                      ELSE Analysis(score.v >= MIN_SCORE, score, reason)

\* the pieces of a reply to analyze_job_match: the two tags, white space,
\* digits and other characters
PROBABILITY_TAG == "PROBABILITY:"
EXPLANATION_TAG == "EXPLANATION:"
IsSpace(c) == c \in {" ", LF}

\* the end of the run of white space, of digits, that starts at i
RECURSIVE SkipSpace(_, _)
SkipSpace(s, i) ==
    IF i <= Len(s) /\ IsSpace(s[i]) THEN SkipSpace(s, i + 1) ELSE i

RECURSIVE SkipDigits(_, _)
SkipDigits(s, i) ==
    IF i <= Len(s) /\ IsDigit(s[i]) THEN SkipDigits(s, i + 1) ELSE i

\* re.search(r"PROBABILITY:\s*(\d+)", s) from position i on: group 1 of the
\* leftmost match, or None
RECURSIVE search_probability(_, _)
search_probability(s, i) ==
    IF i > Len(s) THEN None
    ELSE LET j == SkipSpace(s, i + 1)
             k == SkipDigits(s, j)
         IN  IF s[i] = PROBABILITY_TAG /\ k > j THEN Str(SubSeq(s, j, k - 1))
             ELSE search_probability(s, i + 1)

\* str.strip()
RECURSIVE strip(_)
strip(s) ==
    IF s = <<>> THEN s
    ELSE IF IsSpace(s[1]) THEN strip(Tail(s))
    ELSE IF IsSpace(s[Len(s)]) THEN strip(SubSeq(s, 1, Len(s) - 1))
    ELSE s

\* re.search(r"EXPLANATION:\s*(.+)", s, re.DOTALL) and strip() of group 1:
\* the leftmost tag that has anything after it matches, and group 1 is
\* what follows its white space
search_explanation(s) ==
    LET tags == { i \in 1..(Len(s) - 1) : s[i] = EXPLANATION_TAG }
    IN  IF tags = {} THEN None
        ELSE LET i == CHOOSE i \in tags : \A j \in tags : i <= j
             IN  Str(strip(SubSeq(s, i + 1, Len(s))))

\* what analyze_job_match returns
Match(probability, explanation) ==
    [probability |-> probability, explanation |-> explanation,
     raised |-> FALSE]

\* analyze_job_match with a reply without the tag counted as no match at all
analyze_job_matchZero(self, job_description, reply) ==
    IF ~self.use_llm \/ self.client = None
    THEN Match(50, <<"LLM analysis not available">>)
    ELSE IF reply.raises THEN Match(50, <<"Analysis error: ", "APIError">>)
    ELSE IF reply.content = None
         THEN Match(50, <<"Analysis error: ", "TypeError">>)
    ELSE LET result == reply.content.v
             probability_match == search_probability(result, 1)
         IN  IF probability_match # None
             THEN Match(ParseInt(probability_match.v), result)
             ELSE Match(0, result)

\* LLMAnalysisService.analyze_job_match: 50 without the LLM, 50 when the
\* call or the parsing raises, 50 when the reply has no probability tag,
\* otherwise the number after the tag
analyze_job_match(self, job_description, reply) ==
    IF ~self.use_llm \/ self.client = None
    THEN Match(50, <<"LLM analysis not available">>)
    ELSE IF reply.raises THEN Match(50, <<"Analysis error: ", "APIError">>)
    ELSE IF reply.content = None
         THEN Match(50, <<"Analysis error: ", "TypeError">>)
    ELSE LET result == reply.content.v
             probability_match == search_probability(result, 1)
             explanation_match == search_explanation(result)
         IN  IF probability_match # None
             THEN Match(ParseInt(probability_match.v),
                        IF explanation_match # None THEN explanation_match.v
                        ELSE result)
             ELSE Match(50, result)

-----------------------------------------------------------------------------
(* Config (config.py) *)

\* bool(value) of an Optional[str] setting
truthy(value) == value.tag = "str" /\ value.v # <<>>

\* sep.join(parts)
RECURSIVE join(_, _)
join(sep, parts) ==
    IF parts = <<>> THEN <<>>
    ELSE IF Len(parts) = 1 THEN <<parts[1]>>
    ELSE <<parts[1], sep>> \o join(sep, Tail(parts))

\* the messages of validate
PHONE_REQUIRED == "WORKUA_PHONE or WORKUA_COOKIES is required"
KEYWORDS_REQUIRED == "SEARCH_KEYWORDS is required"
KEY_REQUIRED ==
    "OPENAI_API_KEY is required when USE_LLM or USE_PRE_APPLY_LLM_CHECK is enabled"
FILTER_REQUIRED ==
    "FILTER_PATH or FILTER_CONTENT is required when USE_LLM or USE_PRE_APPLY_LLM_CHECK is enabled"

\* what validate does: it returns True, or raises ValueError with a message
Validated(errors) ==
    IF errors # <<>>
    THEN [raised |-> "ValueError", result |-> None,
          message |-> <<"Configuration errors:\n  - ">>
                      \o join("\n  - ", errors)]
    ELSE [raised |-> "none", result |-> Str(<<"True">>), message |-> <<>>]

\* validate with the LLM requirements looked at only under USE_LLM
validateUseLLMOnly(cls) ==
    Validated(
        (IF ~truthy(cls.WORKUA_PHONE) /\ ~truthy(cls.WORKUA_COOKIES)
         THEN <<PHONE_REQUIRED>> ELSE <<>>)
        \o (IF cls.SEARCH_KEYWORDS = <<>> THEN <<KEYWORDS_REQUIRED>> ELSE <<>>)
        \o (IF cls.USE_LLM /\ ~truthy(cls.OPENAI_API_KEY)
            THEN <<KEY_REQUIRED>> ELSE <<>>)
        \o (IF /\ cls.USE_LLM
               /\ ~truthy(cls.FILTER_PATH)
               /\ ~truthy(cls.FILTER_CONTENT)
            THEN <<FILTER_REQUIRED>> ELSE <<>>))

\* Config.validate: the errors are collected in order, and raised together
validate(cls) ==
    LET llm_enabled == cls.USE_LLM \/ cls.USE_PRE_APPLY_LLM_CHECK
    IN  Validated(
            (IF ~truthy(cls.WORKUA_PHONE) /\ ~truthy(cls.WORKUA_COOKIES)
             THEN <<PHONE_REQUIRED>> ELSE <<>>)
            \o (IF cls.SEARCH_KEYWORDS = <<>> THEN <<KEYWORDS_REQUIRED>>
                ELSE <<>>)
            \o (IF llm_enabled /\ ~truthy(cls.OPENAI_API_KEY)
                THEN <<KEY_REQUIRED>> ELSE <<>>)
            \o (IF /\ llm_enabled
                   /\ ~truthy(cls.FILTER_PATH)
                   /\ ~truthy(cls.FILTER_CONTENT)
                THEN <<FILTER_REQUIRED>> ELSE <<>>))

\* hasattr(config, name): the settings of a configuration are the
\* attributes the class Config defines
hasattr(config, name) == name \in DOMAIN config

\* what a constructor or the factory of database.py does: it returns an
\* object of a class, or raises
Created(cls) == [raised |-> "none", class |-> cls]
Raised(e) == [raised |-> e, class |-> "none"]

\* SupabaseVacancyDatabase.__init__: config.SUPABASE_URL and
\* config.SUPABASE_KEY are read, the library is imported and the client is
\* created
SupabaseVacancyDatabase(config, lib) ==
    IF ~hasattr(config, "SUPABASE_URL") THEN Raised("AttributeError")
    ELSE IF ~truthy(config.SUPABASE_URL) THEN Raised("ValueError")
    ELSE IF ~hasattr(config, "SUPABASE_KEY") THEN Raised("AttributeError")
    ELSE IF ~truthy(config.SUPABASE_KEY) THEN Raised("ValueError")
    ELSE IF lib = "not_installed" THEN Raised("ImportError")
    ELSE IF lib = "client_raises" THEN Raised("RuntimeError")
    ELSE Created("SupabaseVacancyDatabase")

\* CSVVacancyDatabase.__init__: the file is created when it is not there
CSVVacancyDatabase(disk) ==
    IF disk = "not_writable" THEN Raised("OSError")
    ELSE Created("CSVVacancyDatabase")

\* VacancyDatabase.create(db_type): with no db_type the two Supabase
\* settings of config decide between the stores
create(db_type, config, lib, disk) ==
    IF db_type = None /\ ~hasattr(config, "SUPABASE_URL")
    THEN Raised("AttributeError")
    ELSE IF /\ db_type = None
            /\ truthy(config.SUPABASE_URL)
            /\ ~hasattr(config, "SUPABASE_KEY")
    THEN Raised("AttributeError")
    ELSE LET detected ==
                 IF db_type # None THEN db_type
                 ELSE IF truthy(config.SUPABASE_URL)
                         /\ truthy(config.SUPABASE_KEY)
                      THEN Str(<<"supabase">>)
                      ELSE Str(<<"csv">>)
         IN  IF detected = Str(<<"supabase">>)
             THEN SupabaseVacancyDatabase(config, lib)
             ELSE IF detected = Str(<<"csv">>) THEN CSVVacancyDatabase(disk)
             ELSE Raised("ValueError")

-----------------------------------------------------------------------------
(* What the callers of the store pass to it *)

\* listing URLs (no control characters)
URLS == {<<"u">>, <<"v">>}

\* date_applied strings: an ISO date, an ISO-like date without padding, and
\* a date in the site's DD.MM.YYYY form
DATE_STRINGS ==
    { strftime_Ymd(Date(2023, 11, 28)),
      <<"2", "0", "2", "4", "-", "1", "-", "5">>,
      <<"2", "8", ".", "1", "1", ".", "2", "0", "2", "3">> }

\* titles and company names: free text, which may be empty and may hold a
\* carriage return
TITLES == {<<>>, <<"a", CR>>}
COMPANIES == {<<>>, <<"c">>}

\* months_threshold values
THRESHOLDS == {0, 2, 3}

-----------------------------------------------------------------------------
(* The store driven through its API *)

NoCall ==
    [op |-> "none", url |-> <<>>, date_applied |-> <<>>, title |-> <<>>,
     company |-> <<>>, months_threshold |-> 0, result |-> None, prior |-> "none"]

\* CSVVacancyDatabase.__init__ on a path with no file: the header is written
\* and there are no data rows
StoreInit ==
    /\ file = <<>>
    /\ now = Date(2023, 12, 1)
    /\ ticks = 0
    /\ last = NoCall
    /\ ever = {}

Call_add_or_update ==
    \E url \in URLS, date_applied \in DATE_STRINGS,
       title \in TITLES, company \in COMPANIES :
        /\ file' = add_or_update(file, url, date_applied, title, company)
        /\ ever' = ever \cup {url}
        /\ last' = [op |-> "add_or_update", url |-> url,
                    date_applied |-> date_applied, title |-> title,
                    company |-> company, months_threshold |-> 0, result |-> None,
                    prior |-> IF /\ last.op = "add_or_update"
                                 /\ last.url = url
                                 /\ last.date_applied = date_applied
                                 /\ last.title = title
                                 /\ last.company = company
                              THEN "repeated"
                              ELSE IF get_application(file, url) # None
                                   THEN "existing" ELSE "new"]
        /\ UNCHANGED <<now, ticks, scraperVars, runVars, extVars>>

Call_get_application ==
    \E url \in URLS :
        /\ last' = [NoCall EXCEPT !.op = "get_application", !.url = url,
                                  !.result = get_application(file, url)]
        /\ UNCHANGED <<file, now, ticks, ever, scraperVars, runVars, extVars>>

Call_should_reapply ==
    \E url \in URLS, months_threshold \in THRESHOLDS :
        /\ last' = [NoCall EXCEPT !.op = "should_reapply", !.url = url,
                                  !.months_threshold = months_threshold,
                                  !.result = should_reapply(file, url, months_threshold, now)]
        /\ UNCHANGED <<file, now, ticks, ever, scraperVars, runVars, extVars>>

\* the calendar moves on: later in the month, or into the next month
Advance ==
    \/ /\ now.day = 1
       /\ now' = [now EXCEPT !.day = 28]
       /\ ticks' = ticks
    \/ /\ ticks < MaxTicks
       /\ now' = IF now.month = 12 THEN Date(now.year + 1, 1, 1)
                 ELSE Date(now.year, now.month + 1, 1)
       /\ ticks' = ticks + 1

Tick ==
    /\ Advance
    /\ last' = [NoCall EXCEPT !.op = "tick"]
    /\ UNCHANGED <<file, ever, scraperVars, runVars, extVars>>

StoreNext ==
    \/ Call_add_or_update
    \/ Call_get_application
    \/ Call_should_reapply
    \/ Tick

Init == StoreInit /\ ScraperNew /\ RunNew /\ ExtNew

Next == StoreNext

Spec == Init /\ [][Next]_vars

(* The store on a file that does not always read to its end: the open or the
   reader raises (the file is not readable, or holds bytes that are not
   UTF-8), which add_or_update catches *)

Call_add_or_update_read_fails ==
    \E url \in URLS, date_applied \in DATE_STRINGS,
       title \in TITLES, company \in COMPANIES, given \in 0..(Len(file) - 1) :
        /\ file' = add_or_update_read_fails(file, given, url, date_applied, title, company)
        /\ ever' = ever \cup {url}
        /\ last' = [op |-> "add_or_update", url |-> url,
                    date_applied |-> date_applied, title |-> title,
                    company |-> company, months_threshold |-> 0, result |-> None,
                    prior |-> "read_failed"]
        /\ UNCHANGED <<now, ticks, scraperVars, runVars, extVars>>

FaultsNext ==
    \/ StoreNext
    \/ Call_add_or_update_read_fails

SpecFaults == Init /\ [][FaultsNext]_vars

-----------------------------------------------------------------------------
(* The scraper driven directly: a session is opened and apply_to_job is
   called on jobs, with a ledger that earlier runs have written *)

COOKIE_FILES == {"absent", "loads", "corrupt"}
HOME_PAGES == {"my_section", "no_my_section", "locator_raises", "goto_raises"}
LOGINS ==
    {"no_phone", "goto_raises", "already", "already_save_raises",
     "no_phone_input", "form_raises", "redirected", "redirected_save_raises",
     "timeout"}

START_ENVS ==
    [launch : BOOLEAN, cookies : COOKIE_FILES, home : HOME_PAGES, login : LOGINS]

\* the listings of the search results: url and title, no company
JOBS == {[url |-> u, title |-> <<"a">>, company |-> <<>>] : u \in URLS}

NOTICES ==
    { Notice("none", None), Notice("undated", None),
      Notice("dated", Date(2023, 11, 28)), Notice("dated", Date(2023, 8, 15)) }

\* a job page on which an application goes through at the first attempt
PlainPage(notice) ==
    [load |-> "ok", notice |-> notice, llm_check |-> FALSE, main |-> TRUE,
     button |-> "apply", click |-> "ok", send |-> TRUE, confirm |-> FALSE,
     not_add |-> FALSE, sign |-> "sent_url"]

\* job pages: under each notice, the plain page and the pages that differ
\* from it in one respect
PAGES ==
    UNION { LET p == PlainPage(n)
            IN  { p,
                  [p EXCEPT !.load = "raises"],
                  [p EXCEPT !.llm_check = TRUE],
                  [p EXCEPT !.llm_check = TRUE, !.main = FALSE],
                  [p EXCEPT !.button = "none"],
                  [p EXCEPT !.button = "view_resume", !.confirm = TRUE],
                  [p EXCEPT !.click = "forced"],
                  [p EXCEPT !.click = "fails"],
                  [p EXCEPT !.send = FALSE],
                  [p EXCEPT !.not_add = TRUE],
                  [p EXCEPT !.sign = "text"],
                  [p EXCEPT !.sign = "resume_button"],
                  [p EXCEPT !.sign = "none"] } : n \in NOTICES }

\* ledgers a store reaches by one add_or_update
LEDGERS ==
    {<<>>} \cup { add_or_update(<<>>, u, d, <<"a">>, <<>>) :
                    u \in URLS, d \in DATE_STRINGS }

ApplyInit ==
    /\ file \in LEDGERS
    /\ now = Date(2023, 12, 1)
    /\ ticks = 0
    /\ last = NoCall
    /\ ever = {file[i].url : i \in 1..Len(file)}
    /\ ScraperNew
    /\ RunNew
    /\ ExtNew

\* scraper.start()
ScraperStart ==
    /\ session.op = "none"
    /\ \E env \in START_ENVS :
          LET r == start(is_logged_in, env)
          IN  /\ is_logged_in' = r.is_logged_in
              /\ session' = [op |-> "start", raised |-> r.raised,
                             auto_login |-> r.auto_login, report |-> "none"]
    /\ apply' = NoApply
    /\ UNCHANGED <<storeVars, applied_jobs, db, runVars, extVars>>

\* scraper.check_login_status() on a started scraper
ScraperCheckLoginStatus ==
    /\ \/ session.op = "start" /\ ~session.raised
       \/ session.op = "check_login_status"
    /\ \E home \in HOME_PAGES :
          LET r == check_login_status(is_logged_in, home)
          IN  /\ is_logged_in' = r.is_logged_in
              /\ session' = [session EXCEPT
                               !.op = "check_login_status",
                               !.raised = r.raised,
                               !.report = IF r.raised THEN "raised"
                                          ELSE IF r.result THEN "logged_in"
                                          ELSE "not_logged_in"]
    /\ apply' = NoApply
    /\ UNCHANGED <<storeVars, applied_jobs, db, runVars, extVars>>

\* scraper.apply_to_job(job)
ApplyToJob ==
    \E job \in JOBS, page \in PAGES :
        LET r == apply_to_job(is_logged_in, db, file, applied_jobs, now,
                              job, page)
        IN  /\ file' = r.file
            /\ applied_jobs' = r.applied_jobs
            /\ ever' = ever \cup {r.file[i].url : i \in 1..Len(r.file)}
            /\ apply' = [op |-> "apply_to_job", job |-> job, page |-> page,
                         load |-> page.load, notice |-> page.notice,
                         today |-> now,
                         outcome |-> r.outcome, clicks |-> r.clicks]
            /\ UNCHANGED <<now, ticks, last, is_logged_in, db, session, runVars, extVars>>

\* time passes between two calls
ApplyTick ==
    /\ Advance
    /\ apply' = NoApply
    /\ UNCHANGED <<file, ever, last, is_logged_in, applied_jobs, db, session,
                   runVars, extVars>>

ApplyNext ==
    \/ ScraperStart
    \/ ApplyToJob
    \/ ApplyTick

SpecApply == ApplyInit /\ [][ApplyNext]_vars

-----------------------------------------------------------------------------
(* WorkUABot.run.  The scraper's start and login check are the code of
   scraper.py; the list search_jobs returns and the way each apply_to_job
   call ends are inputs, so that run is checked against every list and every
   outcome. *)

VACANCY_LIMITS == {2, 500}
LOCATION_LISTS == {<<>>, <<"K">>, <<"K", "L">>}
SCORES == {6, 7}

CONFIGS ==
    { c \in [max_applications : 0..MaxApplications,
             MAX_VACANCIES : VACANCY_LIMITS, REMOTE_ONLY : BOOLEAN,
             LOCATIONS : LOCATION_LISTS, use_llm : BOOLEAN] :
        c.REMOTE_ONLY => c.LOCATIONS = <<>> }

\* lists a search_jobs call returns
FOUND ==
    {<<>>} \cup UNION { [1..n -> JOBS] : n \in 1..MaxFound }

RunInit ==
    /\ StoreInit
    /\ ScraperNew
    /\ ExtNew
    /\ cfg \in CONFIGS
    /\ pc = "new"
    /\ jobs = <<>>
    /\ loc = 0
    /\ idx = 1
    /\ total_scanned = 0
    /\ total_applied = 0
    /\ total_skipped = 0
    /\ calls = [close |-> 0, search_jobs |-> 0, apply_to_job |-> 0]
    /\ trail = NoTrail

\* run: the scraper is created and started
RunStart ==
    /\ pc = "new"
    /\ \E env \in START_ENVS :
          LET r == start(is_logged_in, env)
          IN  /\ is_logged_in' = r.is_logged_in
              /\ session' = [op |-> "start", raised |-> r.raised,
                             auto_login |-> r.auto_login, report |-> "none"]
              /\ pc' = IF r.raised THEN "raised" ELSE "started"
    /\ UNCHANGED <<storeVars, applied_jobs, db, apply, cfg, jobs, loc, idx,
                   total_scanned, total_applied, total_skipped, calls, trail, extVars>>

\* where run goes when the search is reached
SearchOrLoop(c, p) == IF p = "search" /\ Searches(c) = 0 THEN "loop" ELSE p

\* run: the login check after start
RunLoginCheck ==
    /\ pc = "started"
    /\ \/ /\ is_logged_in
          /\ pc' = SearchOrLoop(cfg, login_gate(TRUE).pc)
          /\ UNCHANGED <<is_logged_in, session, calls>>
       \/ /\ ~is_logged_in
          /\ \E home \in HOME_PAGES :
                LET r == check_login_status(is_logged_in, home)
                    gate == login_gate(r.result)
                IN  /\ is_logged_in' = r.is_logged_in
                    /\ session' = [session EXCEPT
                                     !.op = "check_login_status",
                                     !.raised = r.raised,
                                     !.report = IF r.raised THEN "raised"
                                                ELSE IF r.result THEN "logged_in"
                                                ELSE "not_logged_in"]
                    /\ pc' = IF r.raised THEN "raised"
                             ELSE SearchOrLoop(cfg, gate.pc)
                    /\ calls' = IF r.raised THEN calls
                                ELSE [calls EXCEPT !.close = @ + gate.close]
    /\ UNCHANGED <<storeVars, applied_jobs, db, apply, cfg, jobs, loc, idx,
                   total_scanned, total_applied, total_skipped, trail, extVars>>

\* run: one search_jobs call, the only one with REMOTE_ONLY, one for each
\* location without
RunSearch ==
    /\ pc = "search"
    /\ loc < Searches(cfg)
    /\ calls' = [calls EXCEPT !.search_jobs = @ + 1]
    /\ \/ \E found \in FOUND :
             /\ jobs' = jobs \o found
             /\ loc' = loc + 1
             /\ pc' = IF loc + 1 = Searches(cfg) THEN "loop" ELSE "search"
       \/ /\ pc' = "finally"
          /\ UNCHANGED <<jobs, loc>>
    /\ UNCHANGED <<storeVars, scraperVars, cfg, idx, total_scanned,
                   total_applied, total_skipped, trail, extVars>>

\* run: the loop ends, at the end of the list or at one of the two breaks
RunLoopExit ==
    /\ pc = "loop"
    /\ \/ idx > Len(jobs)
       \/ target_reached(total_applied, cfg.max_applications)
       \/ total_scanned >= cfg.MAX_VACANCIES
    /\ pc' = "finally"
    /\ UNCHANGED <<storeVars, scraperVars, cfg, jobs, loc, idx, total_scanned,
                   total_applied, total_skipped, calls, trail, extVars>>

\* run: one job of the list
RunJob ==
    /\ pc = "loop"
    /\ idx <= Len(jobs)
    /\ ~target_reached(total_applied, cfg.max_applications)
    /\ total_scanned < cfg.MAX_VACANCIES
    /\ total_scanned' = total_scanned + 1
    /\ idx' = idx + 1
    /\ \E raises \in BOOLEAN, score \in SCORES :
          IF analyze_job(cfg.use_llm, raises, score)
          THEN \E outcome \in {"True", "False", "raised"} :
                  LET job == jobs[idx]
                      then == after_apply(outcome)
                  IN  /\ calls' = [calls EXCEPT !.apply_to_job = @ + 1]
                      /\ total_applied' = total_applied + then.applied
                      /\ total_skipped' = total_skipped + then.skipped
                      /\ pc' = then.pc
                      /\ trail' = [failed |-> IF trail.failed = 0 /\ outcome # "True"
                                              THEN idx ELSE trail.failed,
                                   kind |-> IF trail.failed = 0 /\ outcome # "True"
                                            THEN outcome ELSE trail.kind,
                                   outcome |-> outcome]
                      /\ IF outcome = "True"
                         THEN /\ file' = add_or_update(file, job.url,
                                                       strftime_Ymd(now),
                                                       job.title, job.company)
                              /\ applied_jobs' = applied_jobs \cup {job.url}
                              /\ ever' = ever \cup {job.url}
                         ELSE UNCHANGED <<file, applied_jobs, ever>>
          ELSE /\ total_skipped' = total_skipped + 1
               /\ trail' = [trail EXCEPT !.outcome = "declined"]
               /\ pc' = "loop"
               /\ UNCHANGED <<file, applied_jobs, ever, calls, total_applied>>
    /\ UNCHANGED <<now, ticks, last, is_logged_in, db, session, apply, cfg,
                   jobs, loc, extVars>>

\* run: the finally block closes the scraper
RunFinally ==
    /\ pc = "finally"
    /\ calls' = [calls EXCEPT !.close = @ + 1]
    /\ pc' = "done"
    /\ UNCHANGED <<storeVars, scraperVars, cfg, jobs, loc, idx, total_scanned,
                   total_applied, total_skipped, trail, extVars>>

RunNext ==
    \/ RunStart
    \/ RunLoginCheck
    \/ RunSearch
    \/ RunLoopExit
    \/ RunJob
    \/ RunFinally

SpecRun == RunInit /\ [][RunNext]_vars

-----------------------------------------------------------------------------
(* The session of a scraper: start() in every environment (the browser, the
   cookie file, the home page, the login form), then check_login_status() as
   WorkUABot.run calls it *)

SessionInit ==
    /\ StoreInit
    /\ ScraperNew
    /\ RunNew
    /\ world \in START_ENVS
    /\ search = None
    /\ llm = None
    /\ conf = None
    /\ agent = None

\* scraper.start() in the environment "world"
SessionStart ==
    /\ session.op = "none"
    /\ LET r == start(is_logged_in, world)
       IN  /\ is_logged_in' = r.is_logged_in
           /\ session' = [op |-> "start", raised |-> r.raised,
                          auto_login |-> r.auto_login, report |-> "none"]
    /\ apply' = NoApply
    /\ UNCHANGED <<storeVars, applied_jobs, db, runVars, extVars>>

SessionNext ==
    \/ SessionStart
    \/ ScraperCheckLoginStatus

SpecSession == SessionInit /\ [][SessionNext]_vars

-----------------------------------------------------------------------------
(* WorkUAScraper.search_jobs on a started scraper.  What
   _parse_search_results returns for each result page is an input, so that
   the scan is checked against every yield of every page. *)

TARGETS == {NoTarget} \cup {Target(n) : n \in 0..MaxTarget}

\* a search_jobs call that has just been entered
SearchCall(max_pages, target_jobs) ==
    [max_pages |-> max_pages, target_jobs |-> target_jobs, pages |-> <<>>,
     counts |-> <<>>, jobs |-> <<>>, status |-> "running"]

SearchInit ==
    /\ StoreInit
    /\ is_logged_in = TRUE
    /\ applied_jobs = {}
    /\ db = StoreClass
    /\ session = [NoSession EXCEPT !.op = "start"]
    /\ apply = NoApply
    /\ RunNew
    /\ world = None
    /\ llm = None
    /\ conf = None
    /\ agent = None
    /\ search \in { SearchCall(max_pages, target_jobs) :
                      max_pages \in 0..MaxPages, target_jobs \in TARGETS }

\* search_jobs: one turn of the loop over the pages: the page is loaded and
\* parsed, its listings are added, and the scan ends at the target, at the
\* page cap, or with the exception the navigation raised
SearchPage ==
    /\ search.status = "running"
    /\ Len(search.pages) < search.max_pages
    /\ \/ \E page_jobs \in FOUND :
             LET page_num == Len(search.pages) + 1
                 found == search.jobs \o page_jobs
             IN  search' = [search EXCEPT
                              !.pages = Append(@, page_num),
                              !.counts = Append(@, Len(found)),
                              !.jobs = found,
                              !.status =
                                  IF \/ scan_ends(search.target_jobs, Len(found))
                                     \/ page_num = search.max_pages
                                  THEN "returned" ELSE "running"]
       \/ search' = [search EXCEPT !.status = "raised"]
    /\ UNCHANGED <<storeVars, scraperVars, runVars, world, llm, conf, agent>>

\* search_jobs with max_pages = 0: the loop is not entered, and the closing
\* log line reads page_num, which was never bound
SearchNoPage ==
    /\ search.status = "running"
    /\ search.max_pages = 0
    /\ search' = [search EXCEPT !.status = "raised"]
    /\ UNCHANGED <<storeVars, scraperVars, runVars, world, llm, conf, agent>>

SearchNext ==
    \/ SearchPage
    \/ SearchNoPage

SpecSearch == SearchInit /\ [][SearchNext]_vars

-----------------------------------------------------------------------------
(* An LLMAnalysisService under every configuration, called with every file
   and every reply of the chat API; with it the two functions of bot.py
   that do the same work, load_resume and analyze_job *)

LLM_CONFIGS ==
    [OPENAI_API_KEY : BOOLEAN, USE_LLM : BOOLEAN,
     USE_PRE_APPLY_LLM_CHECK : BOOLEAN, client_raises : BOOLEAN]

\* the file at a path: none, one that is not UTF-8, or one with a text
FILES ==
    { [tag |-> "FileNotFoundError"], [tag |-> "UnicodeDecodeError"],
      Str(<<>>), Str(<<"f", CR, LF>>) }

\* the values self.filter_text takes
FILTER_TEXTS == {<<>>, fallback_filter, <<"f", LF>>}

LLM_JOBS ==
    { [job_title |-> <<"P", "y">>, company |-> <<"T">>, location |-> <<"K">>,
       salary |-> Str(<<"5", "k">>), description |-> <<"d">>],
      [job_title |-> <<"P">>, company |-> <<>>, location |-> <<>>,
       salary |-> None, description |-> <<>>],
      [job_title |-> <<"J">>, company |-> <<"E">>, location |-> <<"L">>,
       salary |-> Str(<<>>), description |-> <<"d", "e">>] }

\* the lexemes of {"score": <score>, "reason": <reason>}
Scored(score, reason) ==
    <<Punct("{"), Quoted("score"), Punct(":")>> \o score
    \o <<Punct(","), Quoted("reason"), Punct(":"), Quoted(reason), Punct("}")>>

\* the replies to the prompt of analyze_job
JSON_REPLIES ==
    { CallRaises, Reply(None) } \cup
    { Reply(Str(t)) : t \in
        { Scored(<<Digit("8")>>, "Good match"),
          Scored(<<Digit("3")>>, "Poor match"),
          Scored(<<Digit("7")>>, "ok"),
          Scored(<<Digit("1"), Digit("0")>>, "ideal"),
          Scored(<<Quoted("8")>>, "Good match"),
          Scored(<<Word("null")>>, "none"),
          Scored(<<Word("high")>>, "not JSON"),
          <<Punct("{"), Quoted("reason"), Punct(":"), Quoted("no score"),
            Punct("}")>>,
          <<Punct("{"), Quoted("score"), Punct(":"), Digit("9"), Punct("}")>>,
          <<Punct("{"), Quoted("score"), Punct(":"), Digit("6"), Punct(","),
            Quoted("score"), Punct(":"), Digit("9"), Punct("}")>>,
          <<Punct("{"), Quoted("score"), Punct(":"), Digit("8")>>,
          <<Punct("{"), Punct("}")>>,
          <<Punct("["), Punct("]")>>,
          <<Digit("8")>>,
          <<>> } }

\* the replies to the prompt of analyze_job_match
TEXT_REPLIES ==
    { CallRaises, Reply(None) } \cup
    { Reply(Str(t)) : t \in
        { <<PROBABILITY_TAG, " ", "7", "5", "%", LF, EXPLANATION_TAG, " ",
            "x", LF>>,
          <<PROBABILITY_TAG, "7">>,
          <<PROBABILITY_TAG, " ", "5", "0", "%">>,
          <<PROBABILITY_TAG, "1", "5", "0", EXPLANATION_TAG>>,
          <<PROBABILITY_TAG, " ", "x">>,
          <<PROBABILITY_TAG, "-", "5">>,
          <<PROBABILITY_TAG, " ", "x", PROBABILITY_TAG, LF, "0", "8",
            EXPLANATION_TAG, " ">>,
          <<"7", "5", "%">>,
          <<EXPLANATION_TAG, "x">>,
          <<>> } }

DESCRIPTIONS == {<<>>, <<"d">>}

NoLLMCall == [op |-> "none"]

LLMInit ==
    /\ StoreInit
    /\ ScraperNew
    /\ RunNew
    /\ world = None
    /\ search = None
    /\ conf = None
    /\ agent = None
    /\ llm \in { [config |-> c, self |-> LLMAnalysisService(c),
                  call |-> NoLLMCall] : c \in LLM_CONFIGS }

\* service.load_filter(filter_path)
LLMLoadFilter ==
    /\ \E f \in FILES :
          LET r == load_filter(llm.self, f)
          IN  llm' = [llm EXCEPT
                        !.self = r.self,
                        !.call = [op |-> "load_filter", file |-> f,
                                  result |-> r.result, raised |-> r.raised]]
    /\ UNCHANGED <<storeVars, scraperVars, runVars, world, search, conf, agent>>

\* service._build_analysis_prompt(job_title, company, location, salary,
\* description)
LLMBuildPrompt ==
    /\ \E job \in LLM_JOBS :
          llm' = [llm EXCEPT
                    !.call = [op |-> "_build_analysis_prompt", job |-> job,
                              result |-> build_analysis_prompt(
                                  llm.self, job.job_title, job.company,
                                  job.location, job.salary, job.description)]]
    /\ UNCHANGED <<storeVars, scraperVars, runVars, world, search, conf, agent>>

\* await service.analyze_job(job_title, company, location, salary,
\* description)
LLMAnalyzeJob ==
    /\ \E job \in LLM_JOBS, reply \in JSON_REPLIES :
          llm' = [llm EXCEPT
                    !.call = [op |-> "analyze_job", job |-> job,
                              reply |-> reply,
                              result |-> LLMAnalysisService_analyze_job(
                                             llm.self, job, reply)]]
    /\ UNCHANGED <<storeVars, scraperVars, runVars, world, search, conf, agent>>

\* await service.analyze_job_match(job_description)
LLMAnalyzeJobMatch ==
    /\ \E job_description \in DESCRIPTIONS, reply \in TEXT_REPLIES :
          llm' = [llm EXCEPT
                    !.call = [op |-> "analyze_job_match", reply |-> reply,
                              result |-> analyze_job_match(
                                             llm.self, job_description, reply)]]
    /\ UNCHANGED <<storeVars, scraperVars, runVars, world, search, conf, agent>>

\* WorkUABot._load_resume()
BotLoadResume ==
    /\ \E f \in FILES :
          LET r == load_resume(f)
          IN  llm' = [llm EXCEPT
                        !.call = [op |-> "_load_resume", file |-> f,
                                  result |-> r.result, raised |-> r.raised]]
    /\ UNCHANGED <<storeVars, scraperVars, runVars, world, search, conf, agent>>

\* WorkUABot.analyze_job(job), the bot having read the same configuration
BotAnalyzeJob ==
    /\ \E job \in LLM_JOBS, reply \in JSON_REPLIES :
          llm' = [llm EXCEPT
                    !.call = [op |-> "WorkUABot.analyze_job", job |-> job,
                              reply |-> reply,
                              result |-> WorkUABot_analyze_job(
                                  llm.config.OPENAI_API_KEY /\ llm.config.USE_LLM
                                  /\ ~llm.config.client_raises, job, reply)]]
    /\ UNCHANGED <<storeVars, scraperVars, runVars, world, search, conf, agent>>

LLMNext ==
    \/ LLMLoadFilter
    \/ LLMBuildPrompt
    \/ LLMAnalyzeJob
    \/ LLMAnalyzeJobMatch
    \/ BotLoadResume
    \/ BotAnalyzeJob

SpecLLM == LLMInit /\ [][LLMNext]_vars

-----------------------------------------------------------------------------
(* Config.validate under every configuration the environment can give *)

\* os.getenv of a setting: unset, set to nothing, or set to a text
SETTINGS == {None, Str(<<>>), Str(<<"x">>)}

\* SEARCH_KEYWORDS after the split, the strip and the dropping of blanks
KEYWORD_LISTS == {<<>>, <<"a">>, <<"a", "b">>}

\* the db_type passed to VacancyDatabase.create
DB_TYPES ==
    {None, Str(<<"csv">>), Str(<<"supabase">>), Str(<<"sqlite">>), Str(<<>>)}

\* the supabase package: installed and connecting, missing, or failing to
\* create the client
LIBRARIES == {"ok", "not_installed", "client_raises"}

\* the directory of applied_jobs.csv
DISKS == {"ok", "not_writable"}

CONFIGURATIONS ==
    [WORKUA_PHONE : SETTINGS, WORKUA_COOKIES : SETTINGS,
     SEARCH_KEYWORDS : KEYWORD_LISTS, USE_LLM : BOOLEAN,
     USE_PRE_APPLY_LLM_CHECK : BOOLEAN, OPENAI_API_KEY : SETTINGS,
     FILTER_PATH : SETTINGS, FILTER_CONTENT : SETTINGS]

ConfInit ==
    /\ StoreInit
    /\ ScraperNew
    /\ RunNew
    /\ world = None
    /\ search = None
    /\ llm = None
    /\ agent = None
    /\ conf \in { [config |-> c, op |-> "none", db_type |-> None,
                    lib |-> "ok", disk |-> "ok", outcome |-> None] :
                   c \in CONFIGURATIONS }

\* config.validate()
ConfValidate ==
    /\ conf.op = "none"
    /\ conf' = [conf EXCEPT !.op = "validate",
                            !.outcome = validate(conf.config)]
    /\ UNCHANGED <<storeVars, scraperVars, runVars, world, search, llm, agent>>

\* VacancyDatabase.create(db_type) under the configuration, with the
\* supabase library and the working directory as they may be
ConfCreate ==
    /\ conf.op = "none"
    /\ \E db_type \in DB_TYPES, lib \in LIBRARIES, disk \in DISKS :
          conf' = [conf EXCEPT
                     !.op = "create", !.db_type = db_type, !.lib = lib,
                     !.disk = disk,
                     !.outcome = create(db_type, conf.config, lib, disk)]
    /\ UNCHANGED <<storeVars, scraperVars, runVars, world, search, llm, agent>>

ConfNext ==
    \/ ConfValidate
    \/ ConfCreate

SpecConfig == ConfInit /\ [][ConfNext]_vars

-----------------------------------------------------------------------------
(* WorkUAAgent (agent.py).  A job of the workflow is its URL.  Python counts
   the positions of found_jobs from 0, a sequence here counts from 1. *)

\* steps a graph run may take before the graph runtime gives it up
MaxSteps == 7

\* what a node gives back: the state it returns, or the exception it raises
Returned(state) == [raised |-> "none", state |-> state]

Raises(e) == [raised |-> e, state |-> None]

\* the scraper a state holds, with its browser open or closed
WorkUAScraper(open) == [tag |-> "WorkUAScraper", open |-> open]

\* initial_state of WorkUAAgent.run
AgentState ==
    [resume_text |-> "", found_jobs |-> <<>>, analyzed_jobs |-> <<>>,
     applied_jobs |-> <<>>, rejected_jobs |-> <<>>, current_job_index |-> 0,
     error |-> None, scraper |-> None]

\* the graph: its entry, its edges and the targets of the routes
build_graph ==
    [START |-> "load_resume",
     edge |-> [load_resume |-> "search_jobs", search_jobs |-> "analyze_job",
               apply_job |-> "analyze_job", finalize |-> "END"],
     conditional |-> [apply |-> "apply_job", skip |-> "analyze_job",
                      done |-> "finalize"]]

load_resume_node(state) ==
    Returned([state EXCEPT !.resume_text = "resume",
                           !.current_job_index = 0,
                           !.applied_jobs = <<>>,
                           !.rejected_jobs = <<>>,
                           !.analyzed_jobs = <<>>])

\* {job.url: job for job in all_jobs}.values(): one job per URL, in the
\* order in which the URLs first occur
RECURSIVE unique_jobs(_)
unique_jobs(all_jobs) ==
    IF all_jobs = <<>> THEN <<>>
    ELSE LET front == unique_jobs(SubSeq(all_jobs, 1, Len(all_jobs) - 1))
             job == all_jobs[Len(all_jobs)]
         IN  IF \E i \in 1..Len(front) : front[i] = job THEN front
             ELSE Append(front, job)

\* all_jobs is what the search_jobs calls gave, one after the other; "raises"
\* is an exception of scraper.start() or of a search
search_jobs_node(state, raises, all_jobs) ==
    IF raises THEN Raises("Exception")
    ELSE Returned([state EXCEPT !.found_jobs = unique_jobs(all_jobs),
                                !.scraper = WorkUAScraper(TRUE)])

\* analysis is what _llm_analyze_job returned for the job, or its exception
analyze_job_node(state, analysis) ==
    LET index == state.current_job_index
    IN  IF index >= Len(state.found_jobs) THEN Returned(state)
        ELSE IF analysis.raises THEN Raises("Exception")
        ELSE LET job == state.found_jobs[index + 1]
                 entry == [job |-> job, should_apply |-> analysis.should_apply]
             IN  Returned([state EXCEPT
                     !.analyzed_jobs = Append(@, entry),
                     !.rejected_jobs = IF analysis.should_apply THEN @
                                       ELSE Append(@, job)])

\* the route, and the mapping the router was given as it leaves it
should_continue_analyzing(state) ==
    LET index == state.current_job_index
    IN  IF index >= Len(state.found_jobs)
        THEN [route |-> "done", state |-> state]
        ELSE IF state.analyzed_jobs # <<>>
        THEN LET last_analysis == state.analyzed_jobs[Len(state.analyzed_jobs)]
             IN  [route |-> IF last_analysis.should_apply THEN "apply" ELSE "skip",
                  state |-> [state EXCEPT !.current_job_index = @ + 1]]
        ELSE [route |-> "done", state |-> state]

\* the router's mapping taken as the state of the graph
conditional_edgesWriteBack(state, routed) == routed.state

\* a router only chooses the next node: it is given a mapping read from the
\* state for this call, and the graph keeps what the nodes returned
conditional_edges(state, routed) == state

\* success is what scraper.apply_to_job(job) returned, or "raises"
apply_job_node(state, success) ==
    LET index == state.current_job_index
    IN  IF index >= Len(state.found_jobs) THEN Raises("IndexError")
        ELSE IF success = "raises" THEN Raises("Exception")
        ELSE LET job == state.found_jobs[index + 1]
             IN  Returned([state EXCEPT
                     !.applied_jobs = IF success = "True" THEN Append(@, job)
                                      ELSE @])

finalize_node(state) ==
    Returned([state EXCEPT !.scraper = IF @ = None THEN @
                                       ELSE WorkUAScraper(FALSE)])

(* The graph of a WorkUAAgent, run from initial_state to END *)

ANALYSES == {[raises |-> FALSE, should_apply |-> TRUE],
             [raises |-> FALSE, should_apply |-> FALSE],
             [raises |-> TRUE, should_apply |-> FALSE]}

SUCCESSES == {"True", "False", "raises"}

ALL_JOBS == UNION {[1..n -> URLS] : n \in 0..MaxFound}

NoNode == [node |-> "none", idx |-> 0, job |-> None]

AgentInit ==
    /\ StoreInit
    /\ ScraperNew
    /\ RunNew
    /\ world = None
    /\ search = None
    /\ llm = None
    /\ conf = None
    /\ agent = [state |-> AgentState, at |-> build_graph.START, steps |-> 0,
                error |-> "none", last |-> NoNode]

\* the graph after a node: on to "next" with what the node returned, or out
\* with the node's exception
AfterNode(node, result, next) ==
    IF result.raised # "none"
    THEN [agent EXCEPT !.at = "raised", !.error = result.raised,
                       !.steps = @ + 1, !.last = node]
    ELSE [agent EXCEPT !.state = result.state, !.at = next,
                       !.steps = @ + 1, !.last = node]

Runs(node) == agent.at = node /\ agent.steps < MaxSteps

AgentLoadResume ==
    /\ Runs("load_resume")
    /\ agent' = AfterNode([NoNode EXCEPT !.node = "load_resume"],
                          load_resume_node(agent.state),
                          build_graph.edge.load_resume)
    /\ UNCHANGED <<storeVars, scraperVars, runVars, world, search, llm, conf>>

AgentSearchJobs ==
    /\ Runs("search_jobs")
    /\ \E raises \in BOOLEAN, all_jobs \in ALL_JOBS :
          agent' = AfterNode([NoNode EXCEPT !.node = "search_jobs"],
                             search_jobs_node(agent.state, raises, all_jobs),
                             build_graph.edge.search_jobs)
    /\ UNCHANGED <<storeVars, scraperVars, runVars, world, search, llm, conf>>

\* analyze_job_node; the router runs on what it returned
AgentAnalyzeJob ==
    /\ Runs("analyze_job")
    /\ \E analysis \in ANALYSES :
          agent' = AfterNode([NoNode EXCEPT !.node = "analyze_job",
                                            !.idx = agent.state.current_job_index],
                             analyze_job_node(agent.state, analysis),
                             "should_continue_analyzing")
    /\ UNCHANGED <<storeVars, scraperVars, runVars, world, search, llm, conf>>

AgentRoute ==
    /\ agent.at = "should_continue_analyzing"
    /\ LET routed == should_continue_analyzing(agent.state)
       IN  agent' = [agent EXCEPT
                        !.state = conditional_edges(agent.state, routed),
                        !.at = build_graph.conditional[routed.route]]
    /\ UNCHANGED <<storeVars, scraperVars, runVars, world, search, llm, conf>>

\* apply_job_node; "last" keeps the position it read and the job it passed to
\* apply_to_job
AgentApplyJob ==
    /\ Runs("apply_job")
    /\ \E success \in SUCCESSES :
          LET index == agent.state.current_job_index
              job == IF index < Len(agent.state.found_jobs)
                     THEN agent.state.found_jobs[index + 1] ELSE None
          IN  agent' = AfterNode([node |-> "apply_job", idx |-> index, job |-> job],
                                 apply_job_node(agent.state, success),
                                 build_graph.edge.apply_job)
    /\ UNCHANGED <<storeVars, scraperVars, runVars, world, search, llm, conf>>

AgentFinalize ==
    /\ Runs("finalize")
    /\ agent' = AfterNode([NoNode EXCEPT !.node = "finalize"],
                          finalize_node(agent.state),
                          build_graph.edge.finalize)
    /\ UNCHANGED <<storeVars, scraperVars, runVars, world, search, llm, conf>>

\* the graph runtime gives up a run that has taken MaxSteps steps and has a
\* node still to run
AgentGivesUp ==
    /\ agent.at \in {"load_resume", "search_jobs", "analyze_job", "apply_job",
                     "finalize"}
    /\ agent.steps >= MaxSteps
    /\ agent' = [agent EXCEPT !.at = "raised", !.error = "GraphRecursionError"]
    /\ UNCHANGED <<storeVars, scraperVars, runVars, world, search, llm, conf>>

AgentNext ==
    \/ AgentLoadResume
    \/ AgentSearchJobs
    \/ AgentAnalyzeJob
    \/ AgentRoute
    \/ AgentApplyJob
    \/ AgentFinalize
    \/ AgentGivesUp

SpecAgent == AgentInit /\ [][AgentNext]_vars

\* the graph runtime runs the next node whenever there is one
SpecAgentFair == SpecAgent /\ WF_vars(AgentNext)

-----------------------------------------------------------------------------
(* Properties of the ledger *)

\* the record the store shows for a URL has a date strptime accepts
Applied(url) ==
    LET record == get_application(file, url)
    IN  IF record = None THEN None ELSE strptime_Ymd(record.date_applied)

C4_NoRecordPermits ==
    (last.op = "should_reapply" /\ get_application(file, last.url) = None)
        => last.result = TRUE

\* C4 witness: should_reapply was asked, with the largest threshold, about a
\* URL that has no record while the other URL has one
C4_Witness ==
    /\ last.op = "should_reapply"
    /\ last.months_threshold = 3
    /\ Len(file) = 1
    /\ get_application(file, last.url) = None
    /\ last.result = TRUE

\* C5 as the spec states it: the month difference is commutative under the
\* threshold comparison, (months(a, b) >= t) = (months(b, a) >= t), here for a
\* the date of a record and b the current date.
C5_Commutative ==
    \A url \in URLS, t \in THRESHOLDS :
        Applied(url) # None =>
            ((calculate_months_between(Applied(url), now) >= t)
                = (calculate_months_between(now, Applied(url)) >= t))

\* C5 as amended: the month difference is antisymmetric,
\* months(a, b) = -months(b, a), so (months(a, b) >= t) = (months(b, a) <= -t).
C5_Antisymmetric ==
    \A url \in URLS, t \in THRESHOLDS :
        Applied(url) # None =>
            /\ calculate_months_between(Applied(url), now)
                  = 0 - calculate_months_between(now, Applied(url))
            /\ (calculate_months_between(Applied(url), now) >= t)
                  = (calculate_months_between(now, Applied(url)) <= 0 - t)

\* C5 witness: should_reapply compared a record two calendar months old
\* with the threshold
C5_Witness ==
    /\ last.op = "should_reapply"
    /\ Applied(last.url) # None
    /\ calculate_months_between(Applied(last.url), now) = 2
    /\ calculate_months_between(now, Applied(last.url)) = 0 - 2

\* C6: for a URL whose record has a date that parses, should_reapply(url, t)
\* returns True exactly when
\* (now.year - applied.year) * 12 + (now.month - applied.month) >= t and
\* False otherwise; the days of the month play no part.
C6_ElapsedMonthsDecide ==
    (last.op = "should_reapply" /\ Applied(last.url) # None) =>
        last.result =
            ((now.year - Applied(last.url).year) * 12
                + (now.month - Applied(last.url).month) >= last.months_threshold)

\* C6 witness: an application of 28 November, asked about on 1 January with
\* threshold 2: 34 days, two calendar months, allowed
C6_Witness ==
    /\ last.op = "should_reapply"
    /\ Applied(last.url) = Date(2023, 11, 28)
    /\ now = Date(2024, 1, 1)
    /\ last.months_threshold = 2
    /\ last.result = TRUE

\* C8: write-then-read round trip: after add_or_update(url, d, title,
\* company) with non-empty title and company, get_application(url) returns
\* exactly the values passed; for a URL never added it returns None.
C8_RoundTrip ==
    /\ (last.op = "add_or_update" /\ last.title # <<>> /\ last.company # <<>>) =>
          get_application(file, last.url)
              = Row(last.url, last.date_applied, last.title, last.company)
    /\ \A url \in URLS \ ever : get_application(file, url) = None


-----------------------------------------------------------------------------
(* Properties of apply_to_job *)

\* C1: apply_to_job never re-applies too soon: for a job URL whose ledger
\* record has a date_applied fewer than REAPPLY_AFTER_MONTHS calendar months
\* before now, apply_to_job returns False without clicking the apply button
\* or the send button.
C1_NeverReappliesTooSoon ==
    apply.op = "apply_to_job" =>
        LET applied == Applied(apply.job.url)
        IN  (/\ applied # None
             /\ calculate_months_between(applied, apply.today)
                    < REAPPLY_AFTER_MONTHS)
                => apply.outcome = "False" /\ apply.clicks = <<>>

Clicks(button) ==
    Cardinality({i \in 1..Len(apply.clicks) : apply.clicks[i] = button})

\* the ledger has a record for the job of the last call dated the day of
\* the call
RecordedToday ==
    LET record == get_application(file, apply.job.url)
    IN  /\ record # None
        /\ record.date_applied = strftime_Ymd(apply.today)

\* the last apply_to_job call was made for a logged-in user, about a job
\* the ledger has no record of, whose page loads, carries no notice, is not
\* put to the LLM and has an apply button
ButtonInReach ==
    /\ apply.op = "apply_to_job"
    /\ is_logged_in
    /\ apply.job.url \notin ever
    /\ apply.page.load = "ok"
    /\ apply.page.notice.kind = "none"
    /\ ~apply.page.llm_check
    /\ apply.page.button # "none"

\* C11: in apply_to_job the apply button is clicked at most twice per job,
\* one normal click and, only if the normal click raised, one force click;
\* if the force click also raises, apply_to_job returns False, never clicks
\* the send button and does not record an application dated today.  No
\* other step is retried.
C11_OneFallbackClick ==
    apply.op = "apply_to_job" =>
        /\ Clicks("click") <= 1
        /\ Clicks("force_click") <= 1
        /\ Clicks("force_click") = 1 =>
              Clicks("click") = 1 /\ apply.page.click # "ok"
        /\ \A button \in {"send", "confirm", "not_add"} : Clicks(button) <= 1
        /\ (ButtonInReach /\ apply.page.click = "fails") =>
              /\ apply.outcome = "False"
              /\ Clicks("send") = 0
              /\ ~RecordedToday

\* C14: apply_to_job returns True only after the send button has been
\* clicked and one of the three success signs holds, and it writes today's
\* date to the ledger for job.url exactly when it returns True; when none of
\* the signs holds it returns False and leaves the ledger without a record
\* dated today.
C14_SuccessSigns ==
    apply.op = "apply_to_job" =>
        /\ apply.outcome = "True" =>
              Clicks("send") = 1 /\ apply.page.sign # "none"
        /\ (apply.outcome = "True") = RecordedToday
        /\ (/\ ButtonInReach
            /\ apply.page.click # "fails"
            /\ apply.page.send
            /\ apply.page.sign = "none") =>
              apply.outcome = "False" /\ ~RecordedToday

-----------------------------------------------------------------------------
(* Properties of WorkUABot.run *)

\* C9: a failure while handling one job degrades to skipping that job and
\* never aborts the run: when apply_to_job raises or returns False for a
\* job, the job is counted as skipped and the loop goes on to the next job;
\* once a job has failed, the loop still ends only at the end of the list,
\* at the application target or at the scan limit.
C9_FailureSkipsJob ==
    /\ [][(/\ calls'.apply_to_job = calls.apply_to_job + 1
            /\ trail'.outcome \in {"False", "raised"})
              => /\ total_skipped' = total_skipped + 1
                 /\ total_applied' = total_applied
                 /\ total_scanned' = total_scanned + 1
                 /\ idx' = idx + 1
                 /\ jobs' = jobs
                 /\ pc' = "loop"]_vars
    /\ []((pc \in {"finally", "done"} /\ trail.failed > 0)
            => \/ idx > Len(jobs)
               \/ total_applied >= cfg.max_applications
               \/ total_scanned >= cfg.MAX_VACANCIES)

\* C9 witness: a run over three jobs has ended; apply_to_job raised for the
\* first job, the second was skipped as well and the third was applied to
C9_Witness ==
    /\ pc = "done"
    /\ ~cfg.use_llm
    /\ Len(jobs) = 3
    /\ trail.failed = 1
    /\ trail.kind = "raised"
    /\ trail.outcome = "True"
    /\ total_scanned = 3
    /\ total_skipped = 2
    /\ total_applied = 1

\* C10: a failed login surfaces as a failed run: if the login wait in
\* auto_login times out, is_logged_in is still False when start returns, and
\* if check_login_status then reports not logged in, run closes the scraper
\* and returns without any search_jobs call and without any apply_to_job
\* call.
C10_FailedLoginEndsRun ==
    /\ (session.op = "start" /\ session.auto_login = "timeout")
          => ~is_logged_in
    /\ (session.auto_login = "timeout" /\ session.report = "not_logged_in")
          => /\ pc = "done"
             /\ calls = [close |-> 1, search_jobs |-> 0, apply_to_job |-> 0]
             /\ jobs = <<>>
             /\ total_scanned = 0
             /\ total_applied = 0
             /\ total_skipped = 0

\* C10 witness: the login wait timed out during start, the login check of
\* run found the user not logged in, and run has returned
C10_Witness ==
    /\ session.op = "check_login_status"
    /\ session.auto_login = "timeout"
    /\ session.report = "not_logged_in"
    /\ ~is_logged_in
    /\ cfg.max_applications > 0
    /\ pc = "done"

-----------------------------------------------------------------------------
(* Properties of search_jobs *)

\* C12: search_jobs stops at the page cap or the target count: it loads at
\* most max_pages result pages, in page order 1, 2, ..., and for
\* target_jobs >= 1 it loads no further page after the first page at whose
\* end the accumulated number of listings is at least target_jobs; a page
\* that yields zero listings does not stop the scan, which returns only at
\* the page cap or at the target.
C12_ScanStops ==
    LET s == search
        n == Len(s.pages)
    IN  /\ n <= s.max_pages
        /\ \A i \in 1..n : s.pages[i] = i
        /\ (s.target_jobs.given /\ s.target_jobs.n >= 1) =>
              \A i \in 1..(n - 1) : s.counts[i] < s.target_jobs.n
        /\ s.status = "returned" =>
              \/ n = s.max_pages
              \/ /\ s.target_jobs.given
                 /\ s.target_jobs.n >= 1
                 /\ s.counts[n] >= s.target_jobs.n

\* C12 witness: with a cap of three pages and a target of two listings the
\* first page yielded nothing, the second page brought the count to the
\* target, and search_jobs returned without loading the third
C12_Witness ==
    /\ search.max_pages = 3
    /\ search.target_jobs = Target(2)
    /\ search.pages = <<1, 2>>
    /\ search.counts = <<0, 2>>
    /\ search.status = "returned"

-----------------------------------------------------------------------------
(* Properties of the session *)

\* C13: session restore with login fallback: in a start() that launched the
\* browser, auto_login is called exactly when there is no cookie file or the
\* restored cookies are found not logged in by check_login_status; when the
\* cookies are restored and check_login_status finds the user logged in,
\* auto_login is not called and start() ends, without raising, logged in.
C13_LoginFallback ==
    (session.op = "start" /\ world.launch) =>
        /\ (session.auto_login # "not_called") =
              \/ world.cookies = "absent"
              \/ /\ world.cookies = "loads"
                 /\ world.home \in {"no_my_section", "locator_raises"}
        /\ (world.cookies = "loads" /\ world.home = "my_section") =>
              /\ session.auto_login = "not_called"
              /\ ~session.raised
              /\ is_logged_in

\* C13 witness: the cookies were restored, the home page did not show the
\* user's section, and start() went through the phone login
C13_Witness ==
    /\ session.op = "start"
    /\ world.launch
    /\ world.cookies = "loads"
    /\ world.home = "no_my_section"
    /\ session.auto_login = "redirected"
    /\ is_logged_in

-----------------------------------------------------------------------------
(* Properties of the LLM analysis *)

\* the reply of the most recent analyze_job call, as json.loads reads it
Parsed == json_loads(llm.call.reply.content.v)

\* the LLM call of the most recent analyze_job raised, or its reply is not
\* the text of a JSON object
ReplyFailed ==
    \/ llm.call.reply.raises
    \/ llm.call.reply.content = None
    \/ Parsed.tag # "dict"

\* the reply is a JSON object whose 'score' is not a number, so that the
\* comparison with MIN_SCORE raises
ScoreFailed ==
    /\ ~ReplyFailed
    /\ "score" \in DOMAIN Parsed.v
    /\ Parsed.v["score"].tag # "int"

\* C15: with LLM analysis enabled and a reply that is a JSON object,
\* LLMAnalysisService.analyze_job returns should_apply = (score >= MIN_SCORE)
\* where score is the number in the 'score' field of the reply, 0 when the
\* field is missing; the score and the reason returned are those of the
\* reply.
C15_ScoreDecides ==
    (llm.call.op = "analyze_job" /\ llm.self.use_llm /\ ~ReplyFailed) =>
        LET r == llm.call.result
            d == Parsed.v
        IN  /\ ("score" \in DOMAIN d /\ d["score"].tag = "int") =>
                  /\ r.score = d["score"]
                  /\ r.should_apply = (d["score"].v >= MIN_SCORE)
                  /\ "reason" \in DOMAIN d => r.reason = d["reason"]
            /\ "score" \notin DOMAIN d =>
                  /\ r.score = Number(0)
                  /\ r.should_apply = (0 >= MIN_SCORE)
                  /\ "reason" \in DOMAIN d => r.reason = d["reason"]

\* C15 witness: the reply scored the job exactly MIN_SCORE, and analyze_job
\* returned should_apply with that score and the reason of the reply
C15_Witness ==
    /\ llm.call.op = "analyze_job"
    /\ llm.self.use_llm
    /\ llm.call.reply = Reply(Str(Scored(<<Digit("7")>>, "ok")))
    /\ llm.call.result = Analysis(TRUE, Number(7), Str(<<"ok">>))

\* C16: a failed LLM call, a reply that cannot be read as a JSON object or
\* a score that cannot be compared makes analyze_job return (False, 0, a
\* reason that mentions the error), so the job is skipped; without the LLM analyze_job returns (True, 10, reason); no
\* exception leaves analyze_job, in llm_service.py or in bot.py.
C16_FailureSkips ==
    llm.call.op \in {"analyze_job", "WorkUABot.analyze_job"} =>
        LET r == llm.call.result
            use_llm == IF llm.call.op = "analyze_job" THEN llm.self.use_llm
                       ELSE llm.config.OPENAI_API_KEY /\ llm.config.USE_LLM
                            /\ ~llm.config.client_raises
        IN  /\ ~r.raised
            /\ ~use_llm =>
                  /\ r.should_apply
                  /\ r.score = Number(10)
                  /\ r.reason.tag = "str"
            /\ (use_llm /\ (ReplyFailed \/ ScoreFailed)) =>
                  /\ ~r.should_apply
                  /\ r.score = Number(0)
                  /\ r.reason.tag = "str"
                  /\ r.reason.v[1] = "Analysis error: "
                  /\ Len(r.reason.v) = 2

\* C16 witness: with the LLM enabled the call raised, and analyze_job
\* returned (False, 0, "Analysis error: ...")
C16_Witness ==
    /\ llm.call.op = "analyze_job"
    /\ llm.self.use_llm
    /\ llm.call.reply = CallRaises
    /\ llm.call.result = AnalysisError("APIError")

\* where a probability tag of the text s is followed, after white space, by
\* a run of digits: the places <<tag, first digit, last digit>>
Tagged(s) ==
    { t \in (1..Len(s)) \X (1..Len(s)) \X (1..Len(s)) :
        /\ t[1] < t[2]
        /\ t[2] <= t[3]
        /\ s[t[1]] = PROBABILITY_TAG
        /\ \A x \in (t[1] + 1)..(t[2] - 1) : IsSpace(s[x])
        /\ \A x \in t[2]..t[3] : IsDigit(s[x])
        /\ (t[3] = Len(s) \/ ~IsDigit(s[t[3] + 1])) }

\* C17: analyze_job_match returns probability 50 when the LLM is not
\* available, when the call raises and when the reply has no
\* 'PROBABILITY: <digits>' tag; otherwise it returns the integer that
\* follows the first such tag.  It never raises.
C17_DefaultFifty ==
    llm.call.op = "analyze_job_match" =>
        LET r == llm.call.result
            reply == llm.call.reply
            available == llm.self.use_llm /\ llm.self.client # None
        IN  /\ ~r.raised
            /\ (~available \/ reply.raises \/ reply.content = None) =>
                  r.probability = 50
            /\ (available /\ ~reply.raises /\ reply.content # None) =>
                  LET s == reply.content.v
                  IN  IF Tagged(s) = {} THEN r.probability = 50
                      ELSE LET t == CHOOSE t \in Tagged(s) :
                                        \A u \in Tagged(s) : t[1] <= u[1]
                           IN  r.probability = ParseInt(SubSeq(s, t[2], t[3]))

\* C17 witness: the reply carried 'PROBABILITY: 75%' and analyze_job_match
\* returned 75
C17_Witness ==
    /\ llm.call.op = "analyze_job_match"
    /\ llm.self.use_llm
    /\ ~llm.call.reply.raises
    /\ llm.call.reply.content # None
    /\ Tagged(llm.call.reply.content.v) # {}
    /\ llm.call.result.probability = 75

\* the text sub occurs in the text s
Contains(sub, s) ==
    \E i \in 0..(Len(s) - Len(sub)) : SubSeq(s, i + 1, i + Len(sub)) = sub

\* C18: the analysis prompt does not leak the user's filter: for the same
\* job fields build_analysis_prompt returns the same prompt whatever
\* filter_text is, and the prompt contains the title, the company, the
\* location and the salary of the job.
C18_PromptIgnoresFilter ==
    llm.call.op = "_build_analysis_prompt" =>
        LET job == llm.call.job
            prompt == llm.call.result
        IN  /\ \A f \in FILTER_TEXTS :
                  build_analysis_prompt(
                      [llm.self EXCEPT !.filter_text = f], job.job_title,
                      job.company, job.location, job.salary,
                      job.description) = prompt
            /\ Contains(job.job_title, prompt)
            /\ Contains(job.company, prompt)
            /\ Contains(job.location, prompt)
            /\ job.salary.tag = "str" => Contains(job.salary.v, prompt)

\* C18 witness: a filter has been loaded, and the prompt was built for a job
\* with a title, a company, a location and a salary
C18_Witness ==
    /\ llm.call.op = "_build_analysis_prompt"
    /\ llm.self.filter_text = <<"f", LF>>
    /\ llm.call.job.job_title = <<"P", "y">>
    /\ llm.call.job.salary = Str(<<"5", "k">>)
    /\ Contains(<<"5", "k">>, llm.call.result)

-----------------------------------------------------------------------------
(* Properties of Config.validate *)

\* the message m names the setting of the error text e
Names(m, e) == \E i \in 1..Len(m) : m[i] = e

-----------------------------------------------------------------------------
(* Properties of the store factory *)

\* the configuration names both Supabase settings and both have a value
SupabaseConfigured ==
    /\ hasattr(conf.config, "SUPABASE_URL")
    /\ hasattr(conf.config, "SUPABASE_KEY")
    /\ truthy(conf.config.SUPABASE_URL)
    /\ truthy(conf.config.SUPABASE_KEY)

\* C21: with the library installed and the directory writable,
\* VacancyDatabase.create returns a CSV store when db_type is 'csv' and when
\* db_type is None and the Supabase URL and key are not both configured; it
\* returns a Supabase store when db_type is 'supabase' or both are
\* configured; for any other db_type it raises ValueError; every store it
\* returns has get_application, add_or_update and should_reapply.
C21_FactoryChoosesStore ==
    (conf.op = "create" /\ conf.lib = "ok" /\ conf.disk = "ok") =>
        LET t == conf.db_type
            r == conf.outcome
        IN  /\ (t = Str(<<"csv">>) \/ (t = None /\ ~SupabaseConfigured)) =>
                  r = Created("CSVVacancyDatabase")
            /\ (t = Str(<<"supabase">>) \/ (t = None /\ SupabaseConfigured)) =>
                  r = Created("SupabaseVacancyDatabase")
            /\ t \notin {None, Str(<<"csv">>), Str(<<"supabase">>)} =>
                  r = Raised("ValueError")
            /\ r.raised = "none" =>
                  {"get_application", "add_or_update", "should_reapply"}
                      \subseteq Methods(r.class)

-----------------------------------------------------------------------------
(* Properties of the counters of WorkUABot.run *)

\* C22: in WorkUABot.run, for max_applications >= 0, the number of
\* successful applications never exceeds max_applications, and apply_to_job
\* is never called once total_applied has reached max_applications.
C22_TargetCaps ==
    /\ [](total_applied <= cfg.max_applications)
    /\ [][calls'.apply_to_job # calls.apply_to_job
            => total_applied < cfg.max_applications]_vars

\* C22 witness: the run ended having applied to max_applications = 2 jobs,
\* with a job of the list left that it never looked at
C22_Witness ==
    /\ pc = "done"
    /\ cfg.max_applications = 2
    /\ total_applied = 2
    /\ calls.apply_to_job >= 2
    /\ idx <= Len(jobs)

C24_ClosesOnce ==
    /\ calls.close <= 1
    /\ (pc \in {"done", "raised"} /\ session.op # "none") => calls.close = 1

-----------------------------------------------------------------------------
(* Properties of the agent workflow *)

\* C25: in the agent workflow an application is submitted only for the job
\* that was just analysed with should_apply = true: whenever apply_job_node
\* calls apply_to_job(job), job is the found job whose analysis is the last
\* entry of analyzed_jobs and that entry has should_apply = true; the index
\* apply_job_node uses is within the bounds of found_jobs.
C25_AppliesToAnalysed ==
    agent.last.node = "apply_job" =>
        LET state == agent.state
            n == Len(state.analyzed_jobs)
        IN  /\ agent.last.idx < Len(state.found_jobs)
            /\ n > 0
            /\ state.analyzed_jobs[n].job = agent.last.job
            /\ state.analyzed_jobs[n].should_apply

\* C25 witness: two jobs were found, the first analysis said no, the next
\* one said yes, and apply_job_node applied to the job it was about
C25_Witness ==
    /\ agent.last.node = "apply_job"
    /\ Len(agent.state.found_jobs) = 2
    /\ Len(agent.state.analyzed_jobs) = 2
    /\ ~agent.state.analyzed_jobs[1].should_apply
    /\ agent.state.applied_jobs = <<agent.last.job>>

\* the jobs analysed so far, each as often as it was analysed
Analysed(job) ==
    Cardinality({i \in 1..Len(agent.state.analyzed_jobs) :
                    agent.state.analyzed_jobs[i].job = job})

\* C26: the agent workflow terminates: for every finite list found_jobs,
\* the empty one included, the graph reaches finalize (unless a node itself
\* raised), every found job is analysed exactly once, and
\* current_job_index grows by exactly one with every analysed job.
C26_AgentTerminates ==
    /\ <>(agent.at = "END" \/ (agent.at = "raised" /\ agent.error # "GraphRecursionError"))
    /\ [](agent.at = "END" =>
             \A i \in 1..Len(agent.state.found_jobs) :
                Analysed(agent.state.found_jobs[i]) = 1)
    /\ [](agent.at \in {"analyze_job", "apply_job", "finalize", "END"} =>
             agent.state.current_job_index = Len(agent.state.analyzed_jobs))

-----------------------------------------------------------------------------
(* Properties of add_or_update on the other records *)

\* C27: add_or_update(url, ...) changes only the record of that URL: every
\* record stored under another URL is there and the same (url, date_applied,
\* title, company) after the call, also when reading the store fails
\* part-way or entirely.
C27_OtherRecordsKept ==
    [][last'.op = "add_or_update" =>
          \A url \in URLS \ {last'.url} :
             get_application(file', url) = get_application(file, url)]_vars

-----------------------------------------------------------------------------
(* Properties of the checks apply_to_job makes on the job page *)

\* C28: when the job page shows the already-applied notice with a
\* DD.MM.YYYY date, apply_to_job first sets the ledger record of the URL to
\* that date and then, if fewer than REAPPLY_AFTER_MONTHS months have passed
\* since it, returns False without clicking the apply or the send button;
\* when the date of the notice cannot be parsed the ledger is left as it is
\* and the apply sequence goes on.
C28_NoticeSetsLedger ==
    [][(/\ apply'.op = "apply_to_job"
        /\ apply' # apply
        /\ is_logged_in
        /\ get_application(file, apply'.job.url) = None
        /\ apply'.load = "ok")
          => LET record == get_application(file', apply'.job.url)
                 notice == apply'.notice
             IN  /\ (/\ notice.kind = "dated"
                     /\ calculate_months_between(notice.date, now)
                            < REAPPLY_AFTER_MONTHS) =>
                       /\ record # None
                       /\ record.date_applied = strftime_Ymd(notice.date)
                       /\ apply'.outcome = "False"
                       /\ apply'.clicks = <<>>
                 /\ (/\ notice.kind = "dated"
                     /\ calculate_months_between(notice.date, now)
                            >= REAPPLY_AFTER_MONTHS) =>
                       /\ record # None
                       /\ record.date_applied \in
                             {strftime_Ymd(notice.date), strftime_Ymd(now)}
                       /\ apply'.outcome \in {"True", "False"}
                 /\ notice.kind = "undated" =>
                       /\ apply'.outcome \in {"True", "False"}
                       /\ apply'.outcome = "False" => file' = file
                       /\ (~apply'.page.llm_check /\ apply'.page.button # "none")
                             => apply'.clicks # <<>>]_vars

\* C30: with USE_PRE_APPLY_LLM_CHECK enabled apply_to_job clicks the apply
\* button only if the match probability is at least MIN_MATCH_PROBABILITY
\* or the check itself raised; with a probability below the threshold it
\* returns False, clicks nothing and records no application dated today.
\* The probability of a failed LLM analysis, 50, counts like any other.
C30_ProbabilityGate ==
    (/\ apply.op = "apply_to_job"
     /\ is_logged_in
     /\ apply.job.url \notin ever
     /\ apply.page.load = "ok"
     /\ apply.page.notice.kind = "none"
     /\ apply.page.llm_check
     /\ apply.page.main) =>
        /\ apply.clicks # <<>> =>
              analyze_job_match_with_llm >= MIN_MATCH_PROBABILITY
        /\ analyze_job_match_with_llm < MIN_MATCH_PROBABILITY =>
              /\ apply.outcome = "False"
              /\ apply.clicks = <<>>
              /\ ~RecordedToday

=============================================================================
